---- MODULE Spec2Model ----
(***************************************************************************)
(* Model of backend/app/prophet_service.py: the module-level capability    *)
(* probe (PROPHET_AVAILABLE), ProphetForecastService.prepare_data,         *)
(* forecast, _forecast_prophet, _forecast_holt_winters,                    *)
(* _forecast_simple_exponential and _calculate_metrics.                    *)
(*                                                                         *)
(* Numbers.  The code computes in IEEE doubles.  The model computes in     *)
(* fixed point: a real x is the integer x * SCALE, products and quotients  *)
(* are rounded to the nearest multiple of 1/SCALE.  Inputs are finite and  *)
(* far below the overflow threshold of a double, so no NaN or Infinity     *)
(* arises (every division of the code is guarded against a zero divisor).  *)
(* Strings are sequences of one-character strings, so that strptime is a   *)
(* parser and not the identity.                                            *)
(***************************************************************************)
EXTENDS Integers, Sequences, FiniteSets, TLC

(***************************************************************************)
(* Bounds of the model.                                                    *)
(***************************************************************************)
\* longest historical series drawn from the generated families
MaxLen == 13
\* longest historical series drawn from the explicit point set
MaxShort == 3
\* largest forecast_periods
MaxPeriods == 2

\* the long horizon, asked of a few series only
LongHorizon == 30

\* the resolution of the fixed-point numbers: 1.0 is SCALE (three decimals,
\* so that the code's coefficients 0.674 ... 2.576 are exact)
SCALE == 10 ^ 3

(***************************************************************************)
(* Fixed-point arithmetic.                                                 *)
(***************************************************************************)
Abs(x) == IF x < 0 THEN -x ELSE x

Max(a, b) == IF a >= b THEN a ELSE b

Min(a, b) == IF a <= b THEN a ELSE b

\* a * b, both scaled, rounded to nearest (split so the product fits)
FMul(a, b) == (a \div SCALE) * b + (((a % SCALE) * b + SCALE \div 2) \div SCALE)

\* a / b for b > 0, both scaled, rounded to nearest
FDiv(a, b) == (2 * a * SCALE + b) \div (2 * b)

\* a / k for a scaled a and a plain integer k > 0
FDivInt(a, k) == (2 * a + k) \div (2 * k)

\* the scaled value of a plain integer
ToFloat(k) == k * SCALE

RECURSIVE SumSeq(_)
SumSeq(s) == IF s = <<>> THEN 0 ELSE Head(s) + SumSeq(Tail(s))

\* np.mean of a non-empty sequence of scaled numbers
Mean(s) == FDivInt(SumSeq(s), Len(s))

\* floor of the integer square root, by bisection on 0..46340
RECURSIVE ISqrtBis(_, _, _)
ISqrtBis(x, lo, hi) ==
    IF lo >= hi THEN lo
    ELSE LET mid == (lo + hi + 1) \div 2
         IN  IF mid * mid <= x THEN ISqrtBis(x, mid, hi) ELSE ISqrtBis(x, lo, mid - 1)

ISqrt(x) == ISqrtBis(x, 0, 46340)

\* np.sqrt of a scaled number x >= 0: sqrt(x/SCALE)*SCALE = sqrt(x*SCALE),
\* to two decimals where x*SCALE would not fit
FSqrt(x) == IF x < 2000000 THEN ISqrt(x * SCALE) ELSE 10 * ISqrt(x * (SCALE \div 100))

\* Python's round(x) for a scaled x: nearest integer, ties to even
Round(x) ==
    LET q == x \div SCALE
        r == x % SCALE
    IN  IF 2 * r < SCALE THEN q
        ELSE IF 2 * r > SCALE THEN q + 1
        ELSE IF q % 2 = 0 THEN q ELSE q + 1

(***************************************************************************)
(* datetime.strptime, as prepare_data uses it.  A string is a sequence of  *)
(* one-character strings.  The format is compiled to a regular expression  *)
(* matched at the start of the string (alternatives tried in order, with   *)
(* backtracking), and text left over after the match is an error.          *)
(***************************************************************************)
Digits == {"0", "1", "2", "3", "4", "5", "6", "7", "8", "9"}

DigitVal(c) ==
    CASE c = "0" -> 0 [] c = "1" -> 1 [] c = "2" -> 2 [] c = "3" -> 3
      [] c = "4" -> 4 [] c = "5" -> 5 [] c = "6" -> 6 [] c = "7" -> 7
      [] c = "8" -> 8 [] c = "9" -> 9

\* the character at position i, "" past the end
At(s, i) == IF i >= 1 /\ i <= Len(s) THEN s[i] ELSE ""

\* %Y: exactly four digits at positions 1..4
YearMatches(s) == \A i \in 1..4 : At(s, i) \in Digits

YearOf(s) ==
    DigitVal(s[1]) * 1000 + DigitVal(s[2]) * 100 + DigitVal(s[3]) * 10 + DigitVal(s[4])

\* %m at position p: 1[0-2] | 0[1-9] | [1-9], as <<value, next position>> in order
MonthAlts(s, p) ==
    (IF At(s, p) = "1" /\ At(s, p + 1) \in {"0", "1", "2"}
        THEN << <<10 + DigitVal(s[p + 1]), p + 2>> >> ELSE <<>>)
    \o (IF At(s, p) = "0" /\ At(s, p + 1) \in (Digits \ {"0"})
        THEN << <<DigitVal(s[p + 1]), p + 2>> >> ELSE <<>>)
    \o (IF At(s, p) \in (Digits \ {"0"})
        THEN << <<DigitVal(s[p]), p + 1>> >> ELSE <<>>)

\* %d at position p: 3[01] | [12]\d | 0[1-9] | [1-9] | " "[1-9]
DayAlts(s, p) ==
    (IF At(s, p) = "3" /\ At(s, p + 1) \in {"0", "1"}
        THEN << <<30 + DigitVal(s[p + 1]), p + 2>> >> ELSE <<>>)
    \o (IF At(s, p) \in {"1", "2"} /\ At(s, p + 1) \in Digits
        THEN << <<DigitVal(s[p]) * 10 + DigitVal(s[p + 1]), p + 2>> >> ELSE <<>>)
    \o (IF At(s, p) = "0" /\ At(s, p + 1) \in (Digits \ {"0"})
        THEN << <<DigitVal(s[p + 1]), p + 2>> >> ELSE <<>>)
    \o (IF At(s, p) \in (Digits \ {"0"})
        THEN << <<DigitVal(s[p]), p + 1>> >> ELSE <<>>)
    \o (IF At(s, p) = " " /\ At(s, p + 1) \in (Digits \ {"0"})
        THEN << <<DigitVal(s[p + 1]), p + 2>> >> ELSE <<>>)

IsLeap(y) == (y % 4 = 0 /\ y % 100 # 0) \/ y % 400 = 0

DaysInMonth(y, m) ==
    IF m = 2 THEN (IF IsLeap(y) THEN 29 ELSE 28)
    ELSE IF m \in {4, 6, 9, 11} THEN 30 ELSE 31

\* datetime(y, m, d) is a date
ValidDate(y, m, d) == y >= 1 /\ m \in 1..12 /\ d >= 1 /\ d <= DaysInMonth(y, m)

NoDate == [ok |-> FALSE, year |-> 0, month |-> 0, day |-> 0]

MkDate(y, m, d) ==
    IF ValidDate(y, m, d) THEN [ok |-> TRUE, year |-> y, month |-> m, day |-> d]
    ELSE NoDate

\* the month alternatives after which "-%d" still matches
MonthThenDay(s) ==
    SelectSeq(MonthAlts(s, 6), LAMBDA a : At(s, a[2]) = "-" /\ DayAlts(s, a[2] + 1) # <<>>)

\* datetime.strptime(s, "%Y-%m-%d"); ok = FALSE stands for ValueError
StrptimeYMD(s) ==
    IF ~(YearMatches(s) /\ At(s, 5) = "-") \/ MonthThenDay(s) = <<>> THEN NoDate
    ELSE LET m == Head(MonthThenDay(s))
             d == Head(DayAlts(s, m[2] + 1))
         IN  IF d[2] # Len(s) + 1 THEN NoDate    \* unconverted data remains
             ELSE MkDate(YearOf(s), m[1], d[1])

\* datetime.strptime(s, "%Y-%m"); the day defaults to 1
StrptimeYM(s) ==
    IF ~(YearMatches(s) /\ At(s, 5) = "-") \/ MonthAlts(s, 6) = <<>> THEN NoDate
    ELSE LET m == Head(MonthAlts(s, 6))
         IN  IF m[2] # Len(s) + 1 THEN NoDate    \* unconverted data remains
             ELSE MkDate(YearOf(s), m[1], 1)

\* prepare_data, lines 64-69: the date of one point's month string
ParseMonth(month) ==
    LET first == StrptimeYMD(month \o <<"-", "0", "1">>)
    IN  IF first.ok THEN first ELSE StrptimeYM(month)

\* the order of datetime values
DateOrd(d) == (d.year * 12 + (d.month - 1)) * 31 + (d.day - 1)

(***************************************************************************)
(* prepare_data.  A point is [month |-> string, quantity |-> integer]; a   *)
(* row of the frame is [ds |-> date, y |-> scaled number].                 *)
(***************************************************************************)
\* lines 71-74: the row of one point (float(point.quantity))
RowOf(point) == [ds |-> ParseMonth(point.month), y |-> ToFloat(point.quantity)]

\* the sequence s, its elements computed once
Eager(s) == SubSeq(s, 1, Len(s))

\* the y column of the frame of the call
ValuesOf(frame) == [i \in 1..Len(frame) |-> frame[i].y]

\* s with s[k] replaced by e
ReplaceAt(s, k, e) == SubSeq(s, 1, k - 1) \o <<e>> \o SubSeq(s, k + 1, Len(s))

\* s with e inserted after position k
InsertAt(s, k, e) == SubSeq(s, 1, k) \o <<e>> \o SubSeq(s, k + 1, Len(s))

\* the positions where e may go in the sorted s (rows of equal ds in any order)
SortedPositions(s, e) ==
    {k \in 0..Len(s) :
        /\ \A j \in 1..k : DateOrd(s[j].ds) <= DateOrd(e.ds)
        /\ \A j \in (k + 1)..Len(s) : DateOrd(s[j].ds) >= DateOrd(e.ds)}

\* df.sort_values('ds').reset_index(drop=True): the default sort is not
\* stable, so rows of equal ds may come out in any order
RECURSIVE SortValues(_)
SortValues(rows) ==
    IF rows = <<>> THEN {<<>>}
    ELSE LET e == rows[Len(rows)]
         IN  UNION {{InsertAt(s, k, e) : k \in SortedPositions(s, e)} :
                        s \in SortValues(SubSeq(rows, 1, Len(rows) - 1))}

\* the fault "a month that does not parse is skipped": the rows that parse
\* are kept and sorted, the others dropped without an exception
prepare_data_skipping(historical_data) ==
    LET data == Eager([i \in 1..Len(historical_data) |-> RowOf(historical_data[i])])
        kept == SelectSeq(data, LAMBDA row : row.ds.ok)
    IN  IF kept = <<>>
            THEN {[raised |-> "KeyError", df |-> <<>>]}
        ELSE {[raised |-> "none", df |-> d] : d \in SortValues(kept)}

\* prepare_data: the set of outcomes [raised, df].  A month that does not
\* parse raises ValueError out of the loop; an empty list gives a frame
\* with no columns, and sort_values('ds') raises KeyError on it.
prepare_data(historical_data) ==
    LET data == Eager([i \in 1..Len(historical_data) |-> RowOf(historical_data[i])])
    IN  IF \E i \in 1..Len(data) : ~data[i].ds.ok
            THEN {[raised |-> "ValueError", df |-> <<>>]}
        ELSE IF data = <<>>
            THEN {[raised |-> "KeyError", df |-> <<>>]}
        ELSE {[raised |-> "none", df |-> d] : d \in SortValues(data)}

\* elementwise a - b
SeqMinus(a, b) == Eager([i \in 1..Len(a) |-> a[i] - b[i]])

(***************************************************************************)
(* _calculate_metrics                                                      *)
(***************************************************************************)
\* np.std: the population standard deviation
Std(s) ==
    LET m == Mean(s)
    IN  FSqrt(Mean([i \in 1..Len(s) |-> FMul(s[i] - m, s[i] - m)]))

\* the fault "the mask is applied to the terms only": the percentage errors
\* of the non-zero actuals, averaged over all points
calculate_metrics_unmasked_mean(y_true, y_pred) ==
    LET n == Len(y_true)
        err == SeqMinus(y_true, y_pred)
        mae == Mean([i \in 1..n |-> Abs(err[i])])
        rmse == FSqrt(Mean([i \in 1..n |-> FMul(err[i], err[i])]))
        mape == IF \E i \in 1..n : y_true[i] # 0
                THEN <<100 * Mean([i \in 1..n |->
                          IF y_true[i] # 0 THEN FDiv(Abs(err[i]), Abs(y_true[i])) ELSE 0])>>
                ELSE <<>>
    IN  [mape |-> mape, rmse |-> rmse, mae |-> mae]

\* mape is <<>> for None, <<v>> for a value
calculate_metrics(y_true, y_pred) ==
    LET n == Len(y_true)
        err == SeqMinus(y_true, y_pred)
        mae == Mean([i \in 1..n |-> Abs(err[i])])
        rmse == FSqrt(Mean([i \in 1..n |-> FMul(err[i], err[i])]))
        non_zero == SelectSeq([i \in 1..n |-> i], LAMBDA i : y_true[i] # 0)
        mape == IF non_zero # <<>>
                THEN <<100 * Mean([k \in 1..Len(non_zero) |->
                          FDiv(Abs(err[non_zero[k]]), Abs(y_true[non_zero[k]]))])>>
                ELSE <<>>
    IN  [mape |-> mape, rmse |-> rmse, mae |-> mae]

(***************************************************************************)
(* The fallback forecasters.                                               *)
(***************************************************************************)
\* z_map.get(interval_width, 1.96); interval_width in hundredths
ZScore(interval_width) ==
    CASE interval_width = 50 -> 674
      [] interval_width = 68 -> 1000
      [] interval_width = 80 -> 1280
      [] interval_width = 90 -> 1645
      [] interval_width = 95 -> 1960
      [] interval_width = 99 -> 2576
      [] OTHER -> 1960

\* np.std(residuals) if len(residuals) > 1 else 0
StdError(residuals) == IF Len(residuals) > 1 THEN Std(residuals) ELSE 0

\* the fault "the horizon factor divides": z_score * std_error / sqrt(i + 1)
MarginNarrowing(z_score, std_error, i) ==
    FDiv(FMul(z_score, std_error), FSqrt(ToFloat(i + 1)))

\* z_score * std_error * np.sqrt(i + 1), for the 0-based step i
Margin(z_score, std_error, i) == FMul(FMul(z_score, std_error), FSqrt(ToFloat(i + 1)))

\* the fault "the floor at 0 is forgotten": int(round(x)) alone
RoundUnclamped(x) == Round(x)

\* max(0, int(round(x)))
ClampRound(x) == Max(0, Round(x))

\* the fault "the margin is applied with the wrong sign": lower takes
\* fc + margin and upper takes fc - margin
IntervalSwapped(fc, z_score, std_error, i) ==
    LET margin == Margin(z_score, std_error, i)
    IN  [lower |-> ClampRound(ToFloat(fc) + margin),
         upper |-> ClampRound(ToFloat(fc) - margin)]

\* lines 295-310 and 348-357: the interval of step i around the integer fc
\* (with finite numbers the NaN substitutions are not taken)
Interval(fc, z_score, std_error, i) ==
    LET margin == Margin(z_score, std_error, i)
        lower_val == ToFloat(fc) - margin
        upper_val == ToFloat(fc) + margin
    IN  [lower |-> ClampRound(lower_val), upper |-> ClampRound(upper_val)]

(***************************************************************************)
(* Doubles that need not be finite.  np.std of residuals whose squares    *)
(* overflow is +Infinity, and it is NaN when the residuals themselves     *)
(* overflow with both signs, while the rounded forecast is still finite.   *)
(* A double is [kind, v]: "finite" with the scaled number v, "nan", or     *)
(* "inf" with the sign v.                                                  *)
(***************************************************************************)
Finite(x) == [kind |-> "finite", v |-> x]

NaN == [kind |-> "nan", v |-> 0]

Infinity(sign) == [kind |-> "inf", v |-> sign]

Sign(x) == IF x > 0 THEN 1 ELSE IF x < 0 THEN -1 ELSE 0

\* np.isnan
IsNaN(a) == a.kind = "nan"

\* a * b in IEEE arithmetic: Infinity * 0 is NaN
FloatMul(a, b) ==
    IF IsNaN(a) \/ IsNaN(b) THEN NaN
    ELSE IF a.kind = "finite" /\ b.kind = "finite" THEN Finite(FMul(a.v, b.v))
    ELSE IF Sign(a.v) * Sign(b.v) = 0 THEN NaN
    ELSE Infinity(Sign(a.v) * Sign(b.v))

\* a + b in IEEE arithmetic: Infinity + -Infinity is NaN
FloatAdd(a, b) ==
    IF IsNaN(a) \/ IsNaN(b) THEN NaN
    ELSE IF a.kind = "finite" /\ b.kind = "finite" THEN Finite(a.v + b.v)
    ELSE IF a.kind = "inf" /\ b.kind = "inf" THEN (IF a.v = b.v THEN a ELSE NaN)
    ELSE IF a.kind = "inf" THEN a ELSE b

FloatNeg(a) == IF a.kind = "nan" THEN NaN ELSE [kind |-> a.kind, v |-> -a.v]

FloatSub(a, b) == FloatAdd(a, FloatNeg(b))

\* max(0, int(round(x))): [raised, value]; round() of a NaN and of an
\* infinity raise
ClampRoundFloat(a) ==
    CASE a.kind = "finite" -> [raised |-> "none", value |-> ClampRound(a.v)]
      [] a.kind = "nan" ->
            [raised |-> "ValueError: cannot convert float NaN to integer", value |-> 0]
      [] a.kind = "inf" ->
            [raised |-> "OverflowError: cannot convert float infinity to integer",
             value |-> 0]

\* z_score * std_error * np.sqrt(i + 1) with a std_error that need not be
\* finite
MarginFloat(z_score, std_error, i) ==
    FloatMul(FloatMul(Finite(z_score), std_error), Finite(FSqrt(ToFloat(i + 1))))

\* lines 300-306: lower_val and upper_val of _forecast_holt_winters
BoundsHoltWinters(fc, margin) ==
    LET lower_val == FloatSub(Finite(ToFloat(fc)), margin)
        upper_val == FloatAdd(Finite(ToFloat(fc)), margin)
    IN  [lower |-> IF IsNaN(lower_val) THEN Finite(FMul(ToFloat(fc), 800)) ELSE lower_val,
         upper |-> IF IsNaN(upper_val) THEN Finite(FMul(ToFloat(fc), 1200)) ELSE upper_val]

\* the fault "the substitutes change places": a NaN margin gives lower
\* 1.2 * fc and upper 0.8 * fc
BoundsSimpleSwapped(fc, margin) ==
    [lower |-> IF ~IsNaN(margin) THEN FloatSub(Finite(ToFloat(fc)), margin)
               ELSE Finite(FMul(ToFloat(fc), 1200)),
     upper |-> IF ~IsNaN(margin) THEN FloatAdd(Finite(ToFloat(fc)), margin)
               ELSE Finite(FMul(ToFloat(fc), 800))]

\* lines 352-353: lower_val and upper_val of _forecast_simple_exponential
BoundsSimple(fc, margin) ==
    [lower |-> IF ~IsNaN(margin) THEN FloatSub(Finite(ToFloat(fc)), margin)
               ELSE Finite(FMul(ToFloat(fc), 800)),
     upper |-> IF ~IsNaN(margin) THEN FloatAdd(Finite(ToFloat(fc)), margin)
               ELSE Finite(FMul(ToFloat(fc), 1200))]

\* lines 295-310 and 348-357: the loop over forecast_values, which the
\* first exception ends: [raised, confidence_intervals]
RECURSIVE IntervalLoop(_, _, _, _, _)
IntervalLoop(forecaster, forecast_values, z_score, std_error, done) ==
    IF Len(done) = Len(forecast_values) THEN [raised |-> "none", confidence_intervals |-> done]
    ELSE LET i == Len(done)
             fc == forecast_values[i + 1]
             margin == MarginFloat(z_score, std_error, i)
             bounds == IF forecaster = "holt_winters" THEN BoundsHoltWinters(fc, margin)
                       ELSE BoundsSimple(fc, margin)
             lower == ClampRoundFloat(bounds.lower)
             upper == ClampRoundFloat(bounds.upper)
         IN  IF lower.raised # "none"
                 THEN [raised |-> lower.raised, confidence_intervals |-> <<>>]
             ELSE IF upper.raised # "none"
                 THEN [raised |-> upper.raised, confidence_intervals |-> <<>>]
             ELSE IntervalLoop(forecaster, forecast_values, z_score, std_error,
                               Append(done, [lower |-> lower.value, upper |-> upper.value]))

Intervals(forecast_values, z_score, std_error) ==
    [k \in 1..Len(forecast_values) |-> Interval(forecast_values[k], z_score, std_error, k - 1)]

\* the fault "the horizon loop stops one step early"
StepsOneShort(forecast_periods) == 1..(forecast_periods - 1)

\* range(forecast_periods) as the 1-based index set of the result
Steps(forecast_periods) == 1..forecast_periods

\* _forecast_simple_exponential, lines 329-335: the levels after each point
RECURSIVE SimpleFit(_, _, _)
SimpleFit(values, alpha, fitted_values) ==
    IF Len(fitted_values) = Len(values) THEN fitted_values
    ELSE LET i == Len(fitted_values) + 1
             level == FMul(alpha, values[i])
                        + FMul(SCALE - alpha, fitted_values[Len(fitted_values)])
         IN  SimpleFit(values, alpha, Append(fitted_values, level))

forecast_simple_exponential(values, forecast_periods, alpha, interval_width) ==
    LET fitted_values == SimpleFit(values, alpha, <<values[1]>>)
        final_level == fitted_values[Len(fitted_values)]
        forecast_values == Eager([k \in Steps(forecast_periods) |-> ClampRound(final_level)])
        std_error == StdError(SeqMinus(values, fitted_values))
    IN  [branch |-> "simple_exponential",
         forecast_values |-> forecast_values,
         confidence_intervals |-> Intervals(forecast_values, ZScore(interval_width), std_error),
         metrics |-> calculate_metrics(values, fitted_values),
         fitted_values |-> fitted_values,
         states |-> <<>>]

\* np.mean of doubles that need not be finite
FloatMean(values) ==
    LET RECURSIVE Sum(_)
        Sum(k) == IF k = 0 THEN Finite(0) ELSE FloatAdd(Sum(k - 1), values[k])
        total == Sum(Len(values))
    IN  IF total.kind = "finite" THEN Finite(FDivInt(total.v, Len(values))) ELSE total

\* lines 329-335 on doubles that need not be finite: the levels
RECURSIVE SimpleFitFloat(_, _, _)
SimpleFitFloat(values, alpha, fitted_values) ==
    IF Len(fitted_values) = Len(values) THEN fitted_values
    ELSE LET i == Len(fitted_values) + 1
             level == FloatAdd(FloatMul(Finite(alpha), values[i]),
                               FloatMul(Finite(SCALE - alpha),
                                        fitted_values[Len(fitted_values)]))
         IN  SimpleFitFloat(values, alpha, Append(fitted_values, level))

\* lines 326-339: [raised, fitted_values, forecast_values]; the list
\* comprehension of line 339 raises with its first element
SimpleForecastFloat(values, forecast_periods, alpha) ==
    LET fitted_values == SimpleFitFloat(values, alpha, <<values[1]>>)
        level == fitted_values[Len(fitted_values)]
        final_level == IF ~IsNaN(level) THEN level ELSE FloatMean(values)
        rounded == ClampRoundFloat(final_level)
    IN  [raised |-> IF forecast_periods > 0 THEN rounded.raised ELSE "none",
         fitted_values |-> fitted_values,
         forecast_values |-> IF rounded.raised = "none"
                             THEN [k \in Steps(forecast_periods) |-> rounded.value]
                             ELSE <<>>]

\* line 206: season length
SeasonLength(params) == IF params.yearly_seasonality THEN 12 ELSE 1

\* line 210: alpha = min(0.8, 0.2 + changepoint_prior_scale)
Alpha(params) == Min(800, 200 + params.changepoint_prior_scale)

\* line 211
Beta == 100

\* line 212
Gamma == 200

\* line 203
SeasonalOf(params) == IF params.seasonality_mode = "additive" THEN "add" ELSE "mul"

\* line 220: level = np.mean(values[:season_length])
InitLevel(values, season_length) == Mean(SubSeq(values, 1, season_length))

\* lines 223-232: the initial trend
InitTrend(values, season_length, growth) ==
    LET n == Len(values)
    IN  IF growth = "flat" THEN 0
        ELSE IF n > season_length
            THEN FDivInt(Mean(SubSeq(values, season_length + 1, Min(2 * season_length, n)))
                           - Mean(SubSeq(values, 1, season_length)), season_length)
        ELSE FDivInt(values[n] - values[1], Max(1, n - 1))

\* values[j] for j in range(i, n, season_length), i the 0-based phase
PhaseValues(values, i, season_length) ==
    LET idx == SelectSeq([j \in 1..Len(values) |-> j],
                         LAMBDA j : j >= i + 1 /\ (j - (i + 1)) % season_length = 0)
    IN  [k \in 1..Len(idx) |-> values[idx[k]]]

\* lines 235-246: the seasonal factors, then their normalization
InitSeasonal(values, season_length, level) ==
    LET raw == [p \in 1..season_length |->
                  IF PhaseValues(values, p - 1, season_length) # <<>>
                  THEN (IF level > 0
                        THEN FDiv(Mean(PhaseValues(values, p - 1, season_length)), level)
                        ELSE SCALE)
                  ELSE SCALE]
        avg_seasonal == Mean(raw)
    IN  IF avg_seasonal > 0
        THEN Eager([p \in 1..season_length |-> FDiv(raw[p], avg_seasonal)])
        ELSE Eager(raw)

\* lines 251-256: the fitted value of 0-based index i in state st
HWFitted(st, i, seasonal) ==
    LET sf == st.seasonal_factors[(i % Len(st.seasonal_factors)) + 1]
    IN  IF seasonal = "mul" THEN FMul(st.level + st.trend, sf)
        ELSE st.level + st.trend + sf

\* the fault "a seasonal factor that is not positive counts as 1": the
\* actual value is then divided by 1 instead of having the factor subtracted
HWLevelFactorOne(st, v, sf, seasonal, alpha) ==
    IF seasonal = "mul"
    THEN FMul(alpha, FDiv(v, IF sf > 0 THEN sf ELSE SCALE))
            + FMul(SCALE - alpha, st.level + st.trend)
    ELSE FMul(alpha, v - sf) + FMul(SCALE - alpha, st.level + st.trend)

\* lines 259-263: the level update
HWLevel(st, v, sf, seasonal, alpha) ==
    IF seasonal = "mul" /\ sf > 0
    THEN FMul(alpha, FDiv(v, sf)) + FMul(SCALE - alpha, st.level + st.trend)
    ELSE FMul(alpha, v - sf) + FMul(SCALE - alpha, st.level + st.trend)

\* line 265: the trend update, from the new level and prev_level
HWTrend(st, level, prev_level) ==
    FMul(Beta, level - prev_level) + FMul(SCALE - Beta, st.trend)

\* lines 267-270: the update of the phase's seasonal factor
HWSeasonalFactor(v, sf, level, seasonal) ==
    IF seasonal = "mul" /\ level > 0
    THEN FMul(Gamma, FDiv(v, level)) + FMul(SCALE - Gamma, sf)
    ELSE FMul(Gamma, v - level) + FMul(SCALE - Gamma, sf)

\* the fault "the seasonal update reads the level of before the step, and
\* the trend update the level delta of after it": prev_level and level
\* change places
HWStepStale(st, v, i, seasonal, alpha) ==
    LET season_idx == (i % Len(st.seasonal_factors)) + 1
        sf == st.seasonal_factors[season_idx]
        level == HWLevel(st, v, sf, seasonal, alpha)
    IN  [level |-> level,
         trend |-> HWTrend(st, level, level),
         seasonal_factors |->
            ReplaceAt(st.seasonal_factors, season_idx,
                      HWSeasonalFactor(v, sf, st.level, seasonal))]

\* lines 258-270: one fitting step on values[i] (0-based i)
HWStep(st, v, i, seasonal, alpha) ==
    LET season_idx == (i % Len(st.seasonal_factors)) + 1
        sf == st.seasonal_factors[season_idx]
        prev_level == st.level
        level == HWLevel(st, v, sf, seasonal, alpha)
        trend == HWTrend(st, level, prev_level)
    IN  [level |-> level,
         trend |-> trend,
         seasonal_factors |->
            ReplaceAt(st.seasonal_factors, season_idx,
                      HWSeasonalFactor(v, sf, level, seasonal))]

\* lines 249-270: states[k + 1] is the state after k fitting steps
RECURSIVE HWStates(_, _, _, _)
HWStates(values, seasonal, alpha, states) ==
    IF Len(states) = Len(values) + 1 THEN states
    ELSE LET i == Len(states) - 1
         IN  HWStates(values, seasonal, alpha,
                      Append(states, HWStep(states[Len(states)], values[i + 1], i, seasonal, alpha)))

\* the fault "the horizon loop moves the state on": the level has taken the
\* trend once for every step extrapolated before step i
HWRawForecastAdvancing(st, n, i, seasonal) ==
    LET sf == st.seasonal_factors[((n + i) % Len(st.seasonal_factors)) + 1]
        level == st.level + st.trend * i
    IN  IF seasonal = "mul" THEN FMul(level + st.trend * (i + 1), sf)
        ELSE level + st.trend * (i + 1) + sf

\* the fault "the extrapolation leaves the trend out": the level alone
HWRawForecastLevelOnly(st, n, i, seasonal) ==
    LET sf == st.seasonal_factors[((n + i) % Len(st.seasonal_factors)) + 1]
    IN  IF seasonal = "mul" THEN FMul(st.level, sf) ELSE st.level + sf

\* lines 275-283: the raw forecast of 0-based step i from the final state
HWRawForecast(st, n, i, seasonal) ==
    LET sf == st.seasonal_factors[((n + i) % Len(st.seasonal_factors)) + 1]
    IN  IF seasonal = "mul" THEN FMul(st.level + st.trend * (i + 1), sf)
        ELSE st.level + st.trend * (i + 1) + sf

\* lines 218-316
holt_winters(values, forecast_periods, params) ==
    LET n == Len(values)
        seasonal == SeasonalOf(params)
        season_length == SeasonLength(params)
        alpha == Alpha(params)
        level0 == InitLevel(values, season_length)
        st0 == [level |-> level0,
                trend |-> InitTrend(values, season_length, params.growth),
                seasonal_factors |-> InitSeasonal(values, season_length, level0)]
        states == HWStates(values, seasonal, alpha, <<st0>>)
        fitted_values == Eager([k \in 1..n |-> HWFitted(states[k], k - 1, seasonal)])
        final == states[n + 1]
        forecast_values == Eager([k \in Steps(forecast_periods) |->
                                     ClampRound(HWRawForecast(final, n, k - 1, seasonal))])
        std_error == StdError(SeqMinus(values, fitted_values))
    IN  [branch |-> "holt_winters",
         forecast_values |-> forecast_values,
         confidence_intervals |->
            Intervals(forecast_values, ZScore(params.interval_width), std_error),
         metrics |-> calculate_metrics(values, fitted_values),
         fitted_values |-> fitted_values,
         states |-> states]

\* the fault "the short-series test is n <= season_length"
forecast_holt_winters_inclusive(values, forecast_periods, params) ==
    IF Len(values) <= SeasonLength(params)
    THEN forecast_simple_exponential(values, forecast_periods, Alpha(params),
                                     params.interval_width)
    ELSE holt_winters(values, forecast_periods, params)

\* _forecast_holt_winters, lines 199-216: the short-series switch
forecast_holt_winters(values, forecast_periods, params) ==
    IF Len(values) < SeasonLength(params)
    THEN forecast_simple_exponential(values, forecast_periods, Alpha(params),
                                     params.interval_width)
    ELSE holt_winters(values, forecast_periods, params)

(***************************************************************************)
(* The external model.  What Prophet answers is not decided by this code:  *)
(* ext is the answer of one invocation: [fails_at, yhat, spread, bias,     *)
(* drift].  fails_at names the call that raises ("none" when all           *)
(* succeed); on success the future rows are yhat, yhat + drift, ...        *)
(* (+/- spread) and the in-sample yhat is the actual value plus bias.      *)
(***************************************************************************)
NoResult ==
    [branch |-> "none", forecast_values |-> <<>>, confidence_intervals |-> <<>>,
     metrics |-> <<>>, fitted_values |-> <<>>, states |-> <<>>]

\* lines 168-169: the frame predict returns, one row for each of the n
\* months of history and then one for each future month
ExternalFrame(values, forecast_periods, ext) ==
    LET n == Len(values)
        Row(yhat) == [yhat |-> yhat, yhat_lower |-> yhat - ext.spread,
                      yhat_upper |-> yhat + ext.spread]
    IN  [k \in 1..(n + forecast_periods) |->
            IF k <= n THEN Row(values[k] + ext.bias)
            ELSE Row(ext.yhat + (k - n - 1) * ext.drift)]

\* the fault "the first rows are taken": forecast.head(k)
TailRowsFromHead(frame, k) == SubSeq(frame, 1, k)

\* forecast.tail(k) for k >= 1: the last k rows
TailRows(frame, k) == SubSeq(frame, Len(frame) - k + 1, Len(frame))

\* lines 171-185: the reshaping of the external model's forecast frame
prophet_result(values, forecast_periods, ext) ==
    LET forecast == ExternalFrame(values, forecast_periods, ext)
        future_forecast == TailRows(forecast, forecast_periods)
        fitted_values == [i \in 1..Len(values) |-> forecast[i].yhat]
    IN  [branch |-> "prophet",
         forecast_values |->
            [k \in 1..Len(future_forecast) |-> ClampRound(future_forecast[k].yhat)],
         confidence_intervals |->
            [k \in 1..Len(future_forecast) |->
                [lower |-> ClampRound(future_forecast[k].yhat_lower),
                 upper |-> ClampRound(future_forecast[k].yhat_upper)]],
         metrics |-> calculate_metrics(values, fitted_values),
         fitted_values |-> fitted_values,
         states |-> <<>>]

\* the exception of a failing external call, named by the call
ExternalModelFailure(at) ==
    CASE at = "cmdstan_path" -> "ValueError: no CmdStan installation found"
      [] at = "init" -> "ValueError: Prophet initialization failed"
      [] at = "fit" -> "RuntimeError: Prophet.fit failed"
      [] at = "predict" -> "RuntimeError: Prophet.predict failed"

\* the fault "a failing external call degrades to the fallback": the
\* exception is swallowed and Holt-Winters answers in the same invocation
forecast_prophet_degrading(values, forecast_periods, params, ext) ==
    IF ext.fails_at # "none"
    THEN [raised |-> "none",
          result |-> forecast_holt_winters(values, forecast_periods, params)]
    ELSE [raised |-> "none", result |-> prophet_result(values, forecast_periods, ext)]

\* _forecast_prophet: [raised, result]; no except clause swallows a failure
\* (lines 160-165 log and re-raise), and nothing else is tried after one
forecast_prophet(values, forecast_periods, params, ext) ==
    IF ext.fails_at # "none"
    THEN [raised |-> ExternalModelFailure(ext.fails_at), result |-> NoResult]
    ELSE [raised |-> "none", result |-> prophet_result(values, forecast_periods, ext)]

(***************************************************************************)
(* forecast                                                                *)
(***************************************************************************)
InsufficientData == "ValueError: At least 2 historical data points are required"

\* lines 110-113: the backends forecast dispatches to, in call order
Dispatch(use) == IF use THEN <<"prophet">> ELSE <<"holt_winters">>

\* the fault "the length is tested before the exception of prepare_data is
\* let out": a list with a malformed period fails as a short series
forecast_after_prepare_length_first(prep, forecast_periods, params, ext, use) ==
    LET values == Eager([i \in 1..Len(prep.df) |-> prep.df[i].y])
    IN  IF Len(prep.df) < 2
            THEN [raised |-> InsufficientData, backend_calls |-> <<>>, result |-> NoResult]
        ELSE IF prep.raised # "none"
            THEN [raised |-> prep.raised, backend_calls |-> <<>>, result |-> NoResult]
        ELSE IF Dispatch(use) = <<"prophet">>
            THEN LET r == forecast_prophet(values, forecast_periods, params, ext)
                 IN  [raised |-> r.raised, backend_calls |-> Dispatch(use), result |-> r.result]
        ELSE [raised |-> "none", backend_calls |-> Dispatch(use),
              result |-> forecast_holt_winters(values, forecast_periods, params)]

\* lines 104-113, after prepare_data gave prep: [raised, backend_calls, result]
forecast_after_prepare(prep, forecast_periods, params, ext, use) ==
    LET values == Eager([i \in 1..Len(prep.df) |-> prep.df[i].y])
    IN  IF prep.raised # "none"
            THEN [raised |-> prep.raised, backend_calls |-> <<>>, result |-> NoResult]
        ELSE IF Len(prep.df) < 2
            THEN [raised |-> InsufficientData, backend_calls |-> <<>>, result |-> NoResult]
        ELSE IF Dispatch(use) = <<"prophet">>
            THEN LET r == forecast_prophet(values, forecast_periods, params, ext)
                 IN  [raised |-> r.raised, backend_calls |-> Dispatch(use), result |-> r.result]
        ELSE [raised |-> "none", backend_calls |-> Dispatch(use),
              result |-> forecast_holt_winters(values, forecast_periods, params)]

(***************************************************************************)
(* Module import, lines 24-44: the capability probe.  probe is what the    *)
(* environment answers: the imports fail, cmdstan_path() raises, the path  *)
(* does not exist, or all is there.                                        *)
(***************************************************************************)
Probes == {"import_error", "cmdstan_path_raises", "path_missing", "ok"}

\* the exception raised inside the try block, "none" when it runs through
ProbeException(probe) ==
    CASE probe = "import_error" -> "ImportError"
      [] probe = "cmdstan_path_raises" -> "ValueError"
      [] OTHER -> "none"

\* the fault "the probe catches ImportError only": except ImportError
CaughtImportErrorOnly(exception) == exception = "ImportError"

\* line 43: except Exception catches every exception of the probe
Caught(exception) == exception \in {"ImportError", "ValueError"}

\* lines 35-38
CmdstanEnv == {"CMDSTAN", "CMDSTAN_HOME", "PROPHET_STAN_BACKEND"}

\* lines 25-44: [available, environ, raised]
ImportModule(probe) ==
    [available |-> probe = "ok",
     environ |-> IF probe = "ok" THEN CmdstanEnv ELSE {},
     raised |-> IF ProbeException(probe) # "none" /\ ~Caught(ProbeException(probe))
                THEN ProbeException(probe) ELSE "none"]

(***************************************************************************)
(* Inputs.                                                                 *)
(***************************************************************************)
DigitChar(d) ==
    CASE d = 0 -> "0" [] d = 1 -> "1" [] d = 2 -> "2" [] d = 3 -> "3"
      [] d = 4 -> "4" [] d = 5 -> "5" [] d = 6 -> "6" [] d = 7 -> "7"
      [] d = 8 -> "8" [] d = 9 -> "9"

\* the "YYYY-MM" string of year y, month m
FormatMonth(y, m) ==
    <<DigitChar(y \div 1000), DigitChar((y \div 100) % 10), DigitChar((y \div 10) % 10),
      DigitChar(y % 10), "-", DigitChar(m \div 10), DigitChar(m % 10)>>

\* "not-a-date"
NotADate == <<"n", "o", "t", "-", "a", "-", "d", "a", "t", "e">>

\* "2024-1"
OneDigitMonth == <<"2", "0", "2", "4", "-", "1">>

\* "2024-01-01"
FullDate == FormatMonth(2024, 1) \o <<"-", "0", "1">>

\* the month strings of the explicit points that parse
GoodMonths == {FormatMonth(2024, 1), FormatMonth(2024, 2), OneDigitMonth}

ShortPoints ==
    [month : GoodMonths, quantity : {0, 10}]
        \cup [month : {FullDate, NotADate}, quantity : {10}]

RECURSIVE SeqsUpTo(_, _)
SeqsUpTo(S, n) ==
    IF n = 0 THEN {<<>>}
    ELSE LET shorter == SeqsUpTo(S, n - 1)
         IN  shorter \cup {Append(s, e) : s \in {t \in shorter : Len(t) = n - 1}, e \in S}

\* every list of at most MaxShort explicit points
ShortInputs == SeqsUpTo(ShortPoints, MaxShort)

\* the shapes of the generated series: quantity base + slope*i, plus amp on
\* every second month, never below 0
Shapes ==
    {[base |-> 100, slope |-> 0, amp |-> 0],
     [base |-> 0, slope |-> 0, amp |-> 0],
     [base |-> 1, slope |-> 1, amp |-> 0],
     [base |-> 12, slope |-> -1, amp |-> 0],
     [base |-> 10, slope |-> 0, amp |-> 5],
     [base |-> 0, slope |-> 2, amp |-> 6]}

ShapeQuantity(shape, i) ==
    Max(0, shape.base + shape.slope * i + (IF i % 2 = 0 THEN shape.amp ELSE 0))

\* n consecutive months from 2023-01, oldest first or newest first
LongInput(shape, n, newest_first) ==
    [k \in 1..n |->
        LET i == IF newest_first THEN n - k ELSE k - 1
        IN  [month |-> FormatMonth(2023 + i \div 12, (i % 12) + 1),
             quantity |-> ShapeQuantity(shape, i)]]

LongInputs ==
    {Eager(LongInput(shape, n, nf)) : shape \in Shapes, n \in 2..MaxLen, nf \in BOOLEAN}

\* the lists handed to prepare_data alone
PrepareInputs == ShortInputs \cup LongInputs

\* the explicit points of the lists handed to forecast
ForecastPoints ==
    [month : {FormatMonth(2024, 1)}, quantity : {0, 10}]
        \cup [month : {FormatMonth(2024, 2), NotADate}, quantity : {10}]

\* one season of months whose first phase gets a seasonal factor that is not
\* positive: 0, 1, 2, ..., 11 (factor 0) and -6, 6, 6, ..., 6 (factor below
\* 0; float(point.quantity) takes a negative quantity as it is)
FactorInputs ==
    {Eager([k \in 1..12 |-> [month |-> FormatMonth(2023, k), quantity |-> k - 1]]),
     Eager([k \in 1..12 |-> [month |-> FormatMonth(2023, k),
                             quantity |-> IF k = 1 THEN -6 ELSE 6]])}

\* the lists handed to forecast
ForecastInputs == SeqsUpTo(ForecastPoints, MaxShort - 1) \cup LongInputs \cup FactorInputs

\* the series that are also forecast over the long horizon: the constant
\* 100 and the line 1, 2, 3, ..., of one season and of the greatest length
HorizonInputs ==
    {Eager(LongInput(shape, n, FALSE)) :
        shape \in {s \in Shapes : s.amp = 0 /\ s.base + s.slope > 1 /\ s.slope >= 0},
        n \in {12, MaxLen}}

\* the forecast_periods asked for with the list hd
Horizons(hd) == (1..MaxPeriods) \cup (IF hd \in HorizonInputs THEN {LongHorizon} ELSE {})

\* params = parameters or self.default_params; changepoint_prior_scale is
\* scaled, interval_width is in hundredths
ParamSet ==
    [growth : {"linear", "flat"},
     seasonality_mode : {"additive", "multiplicative"},
     yearly_seasonality : BOOLEAN,
     changepoint_prior_scale : {50},
     interval_width : {95}]
    \cup
    [growth : {"linear"},
     seasonality_mode : {"additive", "multiplicative"},
     yearly_seasonality : BOOLEAN,
     changepoint_prior_scale : {1000},
     interval_width : {80, 70}]

\* on the external path the parameters go to Prophet unread; what they do
\* there is part of the external answer
ProphetParamSet ==
    {p \in ParamSet : p.seasonality_mode = "additive" /\ p.yearly_seasonality
                        /\ p.interval_width \in {95, 80}}

NoExt == [fails_at |-> "none", yhat |-> 0, spread |-> 0, bias |-> 0, drift |-> 0]

ExtOutcomes ==
    [fails_at : {"cmdstan_path", "init", "fit", "predict"}, yhat : {0}, spread : {0},
     bias : {0}, drift : {0}]
    \cup {[fails_at |-> "none", yhat |-> -2500, spread |-> 0, bias |-> 0, drift |-> 0],
          [fails_at |-> "none", yhat |-> 2500, spread |-> 4000, bias |-> 1000, drift |-> 0],
          [fails_at |-> "none", yhat |-> 3500, spread |-> 0, bias |-> 0, drift |-> 0],
          [fails_at |-> "none", yhat |-> 1500, spread |-> 1000, bias |-> 500,
           drift |-> 1000]}

(***************************************************************************)
(* The state machine: the module is imported, prophet_service is built,    *)
(* and callers call prepare_data and forecast on it, one call at a time.   *)
(***************************************************************************)
VARIABLES
    PROPHET_AVAILABLE,      \* the module-level flag
    import_raised,          \* the exception the import let out ("none")
    environ,                \* the keys of os.environ this module has set
    use_prophet,            \* self.use_prophet
    pc,                     \* "idle", "returned" or "raised"
    op,                     \* the method called: "prepare_data", "forecast"
    historical_data,        \* the arguments of the call
    forecast_periods,
    params,
    external,               \* the external model's answer in this call
    df,                     \* the frame prepare_data returned
    raised,                 \* the exception of the call ("none")
    backend_calls,          \* the backends the call invoked, in order
    result,                 \* what the backend returned
    calls,                  \* the forecast calls of concurrent callers, by caller
    reads,                  \* the shared locations each of them has read
    writes,                 \* the shared locations each of them has written
    interval_call,          \* one run of the interval loop on given numbers
    simple_call,            \* one run of the simple-exponential fit on given numbers
    tree_call,              \* one construction of a BOM tree (bom_calculator)
    page_call,              \* one paginated load (bom_calculator)
    inventory_call          \* one inventory aggregation (bom_calculator)

vars ==
    <<PROPHET_AVAILABLE, import_raised, environ, use_prophet, pc, op, historical_data,
      forecast_periods, params, external, df, raised, backend_calls, result,
      calls, reads, writes, interval_call, simple_call, tree_call, page_call,
      inventory_call>>

\* the state of the forecast service and of its callers
forecast_vars ==
    <<PROPHET_AVAILABLE, import_raised, environ, use_prophet, pc, op, historical_data,
      forecast_periods, params, external, df, raised, backend_calls, result,
      calls, reads, writes>>

\* what the runs of single loops add to the state
side_vars == <<interval_call, simple_call, tree_call, page_call, inventory_call>>

\* what the concurrent callers add to the state
conc_vars == <<calls, reads, writes>>

\* what one call at a time uses
call_vars ==
    <<pc, op, historical_data, forecast_periods, params, external, df, raised,
      backend_calls, result>>

NoParams ==
    [growth |-> "none", seasonality_mode |-> "none", yearly_seasonality |-> FALSE,
     changepoint_prior_scale |-> 0, interval_width |-> 0]

\* the threads that call prophet_service.forecast at the same time
Callers == {1, 2}

\* a caller that is not in a call
NoCall ==
    [pc |-> "idle", historical_data |-> <<>>, forecast_periods |-> 0, params |-> NoParams,
     external |-> NoExt, df |-> <<>>, raised |-> "none", result |-> NoResult]

\* no concurrent call is under way
NoCalls ==
    /\ calls = [c \in Callers |-> NoCall]
    /\ reads = [c \in Callers |-> {}]
    /\ writes = [c \in Callers |-> {}]

\* no run of the interval loop is under way
NoIntervalCall ==
    [pc |-> "idle", forecaster |-> "none", forecast_values |-> <<>>,
     std_error |-> Finite(0), z_score |-> 0, confidence_intervals |-> <<>>,
     raised |-> "none"]

\* no run of the simple-exponential fit is under way
NoSimpleCall ==
    [pc |-> "idle", values |-> <<>>, alpha |-> 0, forecast_periods |-> 0,
     fitted_values |-> <<>>, forecast_values |-> <<>>, raised |-> "none"]

\* no tree is being built; root is <<>> or <<the root node>>
NoTreeCall == [pc |-> "idle", boms |-> <<>>, stack |-> <<>>, root |-> <<>>]

\* no paginated load is under way
NoPageCall ==
    [pc |-> "idle", limit |-> 0, all_data |-> <<>>, search_after |-> <<>>,
     requests |-> <<>>, responses |-> <<>>]

\* no inventory aggregation is under way
NoInventoryCall ==
    [pc |-> "idle", variant |-> "none", inventory_data |-> <<>>, inventory_map |-> <<>>]

\* no single loop is under way
NoSideCalls ==
    /\ interval_call = NoIntervalCall
    /\ simple_call = NoSimpleCall
    /\ tree_call = NoTreeCall
    /\ page_call = NoPageCall
    /\ inventory_call = NoInventoryCall

\* the variables of the forecast service, for the steps of the BOM calculator
service_vars ==
    <<PROPHET_AVAILABLE, import_raised, environ, use_prophet, pc, op, historical_data,
      forecast_periods, params, external, df, raised, backend_calls, result,
      calls, reads, writes, interval_call, simple_call>>

\* between calls nothing of a call is kept
Idle ==
    /\ pc = "idle"
    /\ op = "none"
    /\ historical_data = <<>>
    /\ forecast_periods = 0
    /\ params = NoParams
    /\ external = NoExt
    /\ df = <<>>
    /\ raised = "none"
    /\ backend_calls = <<>>
    /\ result = NoResult

\* import of the module, then prophet_service = ProphetForecastService()
Init ==
    /\ \E probe \in Probes :
        /\ PROPHET_AVAILABLE = ImportModule(probe).available
        /\ import_raised = ImportModule(probe).raised
        /\ environ = ImportModule(probe).environ
        /\ use_prophet = ImportModule(probe).available
    /\ Idle
    /\ NoCalls
    /\ NoSideCalls

\* a call of prepare_data(historical_data) from outside
PrepareData ==
    /\ pc = "idle"
    /\ import_raised = "none"
    /\ \E hd \in PrepareInputs :
       \E prep \in prepare_data(hd) :
          /\ historical_data' = hd
          /\ df' = prep.df
          /\ raised' = prep.raised
          /\ pc' = IF prep.raised = "none" THEN "returned" ELSE "raised"
    /\ op' = "prepare_data"
    /\ UNCHANGED <<PROPHET_AVAILABLE, import_raised, environ, use_prophet, forecast_periods,
                   params, external, backend_calls, result>>
    /\ UNCHANGED conc_vars
    /\ UNCHANGED side_vars

\* lines 126-148: _forecast_prophet sets the CmdStan keys again
EnvironAfter(env, invoked) ==
    IF invoked # <<>> /\ Head(invoked) = "prophet" THEN env \cup CmdstanEnv ELSE env

\* a call of forecast(historical_data, forecast_periods, parameters)
Forecast ==
    /\ pc = "idle"
    /\ import_raised = "none"
    /\ \E hd \in ForecastInputs :
       \E prep \in prepare_data(hd) :
       \E fp \in Horizons(hd) :
       \E p \in (IF use_prophet THEN ProphetParamSet ELSE ParamSet) :
       \E ext \in (IF use_prophet /\ prep.raised = "none" /\ Len(prep.df) >= 2
                   THEN ExtOutcomes ELSE {NoExt}) :
          LET out == forecast_after_prepare(prep, fp, p, ext, use_prophet)
          IN  /\ historical_data' = hd
              /\ forecast_periods' = fp
              /\ params' = p
              /\ external' = ext
              /\ df' = prep.df
              /\ raised' = out.raised
              /\ backend_calls' = out.backend_calls
              /\ result' = out.result
              /\ pc' = IF out.raised = "none" THEN "returned" ELSE "raised"
              /\ environ' = EnvironAfter(environ, out.backend_calls)
    /\ op' = "forecast"
    /\ UNCHANGED <<PROPHET_AVAILABLE, import_raised, use_prophet>>
    /\ UNCHANGED conc_vars
    /\ UNCHANGED side_vars

\* the caller takes the result or the exception; the call's locals are gone
Return ==
    /\ pc \in {"returned", "raised"}
    /\ pc' = "idle"
    /\ op' = "none"
    /\ historical_data' = <<>>
    /\ forecast_periods' = 0
    /\ params' = NoParams
    /\ external' = NoExt
    /\ df' = <<>>
    /\ raised' = "none"
    /\ backend_calls' = <<>>
    /\ result' = NoResult
    /\ UNCHANGED <<PROPHET_AVAILABLE, import_raised, environ, use_prophet>>
    /\ UNCHANGED conc_vars
    /\ UNCHANGED side_vars

Next == PrepareData \/ Forecast \/ Return

Spec == Init /\ [][Next]_vars

(***************************************************************************)
(* Concurrent callers.  Two threads call prophet_service.forecast on the   *)
(* one module-level instance.  A step is a stretch of the call between two *)
(* accesses to state that outlives the call: the instance's fields,        *)
(* os.environ, the configuration of cmdstanpy.  What a call keeps in       *)
(* locals (the frame, level, trend, seasonal_factors) is in calls[c] and   *)
(* is touched by the steps of c only.                                      *)
(***************************************************************************)
\* the lists the concurrent callers pass: two points, and one point
ConcurrentInputs ==
    {<<[month |-> FormatMonth(2024, 1), quantity |-> 0],
       [month |-> FormatMonth(2024, 2), quantity |-> 10]>>,
     <<[month |-> FormatMonth(2024, 1), quantity |-> 10]>>}

ConcurrentParams ==
    {p \in ParamSet : p.changepoint_prior_scale = 50 /\ p.growth = "linear"
                        /\ p.seasonality_mode = "additive"}

ConcurrentExt == {ext \in ExtOutcomes : ext.yhat \in {0, 3500}}

\* calls with the record of caller c replaced
SetCall(c, call) == [d \in Callers |-> IF d = c THEN call ELSE calls[d]]

\* the access log with locations added to the entry of caller c
Logged(log, c, locations) ==
    [d \in Callers |-> IF d = c THEN log[d] \cup locations ELSE log[d]]

\* lines 98-113: forecast up to the dispatch; self.use_prophet is read
Enter(c) ==
    /\ import_raised = "none"
    /\ calls[c].pc = "idle"
    /\ \E hd \in ConcurrentInputs :
       \E p \in ConcurrentParams :
       \E prep \in prepare_data(hd) :
       \E ext \in (IF use_prophet /\ prep.raised = "none" /\ Len(prep.df) >= 2
                   THEN ConcurrentExt ELSE {NoExt}) :
          LET failed == IF prep.raised # "none" THEN prep.raised
                        ELSE IF Len(prep.df) < 2 THEN InsufficientData
                        ELSE "none"
              next_pc == IF failed # "none" THEN "raised"
                         ELSE IF Dispatch(use_prophet) = <<"prophet">> THEN "configure"
                         ELSE "fallback"
          IN  /\ calls' = SetCall(c, [pc |-> next_pc, historical_data |-> hd,
                                      forecast_periods |-> 1, params |-> p,
                                      external |-> ext, df |-> prep.df,
                                      raised |-> failed, result |-> NoResult])
              /\ reads' = Logged(reads, c, IF failed = "none" THEN {"use_prophet"} ELSE {})
    /\ UNCHANGED <<PROPHET_AVAILABLE, import_raised, environ, use_prophet, writes>>
    /\ UNCHANGED call_vars
    /\ UNCHANGED side_vars

\* lines 126-136 of _forecast_prophet: cmdstan_path() is asked for, the
\* three keys of os.environ are assigned and cmdstanpy's logger is set
Configure(c) ==
    /\ calls[c].pc = "configure"
    /\ reads' = Logged(reads, c, {"os.environ"})
    /\ IF calls[c].external.fails_at = "cmdstan_path"
       THEN /\ calls' = SetCall(c, [calls[c] EXCEPT
                                      !.pc = "raised",
                                      !.raised = ExternalModelFailure("cmdstan_path")])
            /\ UNCHANGED <<writes, environ>>
       ELSE /\ calls' = SetCall(c, [calls[c] EXCEPT !.pc = "construct"])
            /\ writes' = Logged(writes, c, {"os.environ", "cmdstanpy"})
            /\ environ' = environ \cup CmdstanEnv
    /\ UNCHANGED <<PROPHET_AVAILABLE, import_raised, use_prophet>>
    /\ UNCHANGED call_vars
    /\ UNCHANGED side_vars

\* lines 142-165: the path is set and two keys of os.environ are assigned
\* again, then Prophet(...) is built, which finds CmdStan through them
Construct(c) ==
    /\ calls[c].pc = "construct"
    /\ reads' = Logged(reads, c, {"os.environ"})
    /\ writes' = Logged(writes, c, {"os.environ", "cmdstanpy"})
    /\ environ' = environ \cup {"CMDSTAN", "CMDSTAN_HOME"}
    /\ calls' = SetCall(c, IF calls[c].external.fails_at = "init"
                           THEN [calls[c] EXCEPT !.pc = "raised",
                                                 !.raised = ExternalModelFailure("init")]
                           ELSE [calls[c] EXCEPT !.pc = "fit"])
    /\ UNCHANGED <<PROPHET_AVAILABLE, import_raised, use_prophet>>
    /\ UNCHANGED call_vars
    /\ UNCHANGED side_vars

\* lines 167-185: fit, predict and the reshaping, on the call's own model
\* and frame
FitPredict(c) ==
    /\ calls[c].pc = "fit"
    /\ LET r == forecast_prophet(ValuesOf(calls[c].df), calls[c].forecast_periods,
                                 calls[c].params, calls[c].external)
       IN  calls' = SetCall(c, [calls[c] EXCEPT
                                  !.pc = IF r.raised = "none" THEN "returned" ELSE "raised",
                                  !.raised = r.raised,
                                  !.result = r.result])
    /\ UNCHANGED <<PROPHET_AVAILABLE, import_raised, environ, use_prophet, reads, writes>>
    /\ UNCHANGED call_vars
    /\ UNCHANGED side_vars

\* _forecast_holt_winters, lines 187-316 and 318-360: locals only
Fallback(c) ==
    /\ calls[c].pc = "fallback"
    /\ calls' = SetCall(c, [calls[c] EXCEPT
                              !.pc = "returned",
                              !.result = forecast_holt_winters(
                                            Eager(ValuesOf(calls[c].df)),
                                            calls[c].forecast_periods, calls[c].params)])
    /\ UNCHANGED <<PROPHET_AVAILABLE, import_raised, environ, use_prophet, reads, writes>>
    /\ UNCHANGED call_vars
    /\ UNCHANGED side_vars

\* the caller takes the result or the exception
Leave(c) ==
    /\ calls[c].pc \in {"returned", "raised"}
    /\ calls' = SetCall(c, NoCall)
    /\ reads' = [d \in Callers |-> IF d = c THEN {} ELSE reads[d]]
    /\ writes' = [d \in Callers |-> IF d = c THEN {} ELSE writes[d]]
    /\ UNCHANGED <<PROPHET_AVAILABLE, import_raised, environ, use_prophet>>
    /\ UNCHANGED call_vars
    /\ UNCHANGED side_vars

NextConcurrent ==
    \E c \in Callers :
        \/ Enter(c)
        \/ Configure(c)
        \/ Construct(c)
        \/ FitPredict(c)
        \/ Fallback(c)
        \/ Leave(c)

SpecConcurrent == Init /\ [][NextConcurrent]_vars

(***************************************************************************)
(* The interval loops of the two fallback forecasters, run on forecast     *)
(* values and a standard error given from outside: the standard error is   *)
(* a finite number, +Infinity or NaN (np.std is never negative, and the    *)
(* z-scores and np.sqrt(i + 1) are positive and finite).                   *)
(***************************************************************************)
\* the rounded forecasts the loop is run on
IntervalForecasts == {s \in SeqsUpTo({0, 5, 12}, MaxPeriods) : s # <<>>}

\* the standard errors: 0, 0.5, 4.0, +Infinity, NaN
IntervalStdErrors == {Finite(0), Finite(SCALE \div 2), Finite(4 * SCALE), Infinity(1), NaN}

\* interval_width in hundredths, 70 being no key of z_map
IntervalWidths == {50, 68, 80, 90, 95, 99, 70}

\* lines 285-310 and 341-357 on the given numbers
RunIntervals(forecaster) ==
    /\ interval_call.pc = "idle"
    /\ \E fv \in IntervalForecasts :
       \E se \in IntervalStdErrors :
       \E iw \in IntervalWidths :
          LET out == IntervalLoop(forecaster, fv, ZScore(iw), se, <<>>)
          IN  interval_call' =
                 [pc |-> IF out.raised = "none" THEN "returned" ELSE "raised",
                  forecaster |-> forecaster, forecast_values |-> fv, std_error |-> se,
                  z_score |-> ZScore(iw),
                  confidence_intervals |-> out.confidence_intervals,
                  raised |-> out.raised]
    /\ UNCHANGED forecast_vars
    /\ UNCHANGED <<simple_call, tree_call, page_call, inventory_call>>

\* the caller takes the intervals or the exception
IntervalsReturn ==
    /\ interval_call.pc \in {"returned", "raised"}
    /\ interval_call' = NoIntervalCall
    /\ UNCHANGED forecast_vars
    /\ UNCHANGED <<simple_call, tree_call, page_call, inventory_call>>

NextIntervals ==
    \/ \E forecaster \in {"holt_winters", "simple_exponential"} : RunIntervals(forecaster)
    \/ IntervalsReturn

SpecIntervals == Init /\ [][NextIntervals]_vars

(***************************************************************************)
(* The fit and the forecast of _forecast_simple_exponential, run on        *)
(* values that need not be finite: float(point.quantity) lets Infinity and *)
(* NaN through.                                                            *)
(***************************************************************************)
\* the values of the series: 0, 4, 10, the infinities, NaN
SimpleValues ==
    {Finite(0), Finite(4 * SCALE), Finite(10 * SCALE), Infinity(1), Infinity(-1), NaN}

\* the series: 2 points (forecast refuses fewer) to MaxShort points
SimpleSeries == {s \in SeqsUpTo(SimpleValues, MaxShort) : Len(s) >= 2}

\* lines 326-339 on the given numbers
RunSimple ==
    /\ simple_call.pc = "idle"
    /\ \E values \in SimpleSeries :
       \E p \in ParamSet :
       \E fp \in 1..MaxPeriods :
          LET out == SimpleForecastFloat(values, fp, Alpha(p))
          IN  simple_call' =
                 [pc |-> IF out.raised = "none" THEN "returned" ELSE "raised",
                  values |-> values, alpha |-> Alpha(p), forecast_periods |-> fp,
                  fitted_values |-> out.fitted_values,
                  forecast_values |-> out.forecast_values,
                  raised |-> out.raised]
    /\ UNCHANGED forecast_vars
    /\ UNCHANGED <<interval_call, tree_call, page_call, inventory_call>>

\* the caller takes the forecast or the exception
SimpleReturn ==
    /\ simple_call.pc \in {"returned", "raised"}
    /\ simple_call' = NoSimpleCall
    /\ UNCHANGED forecast_vars
    /\ UNCHANGED <<interval_call, tree_call, page_call, inventory_call>>

NextSimple == RunSimple \/ SimpleReturn

SpecSimple == Init /\ [][NextSimple]_vars

(***************************************************************************)
(* bom_calculator_api.py and bom_calculator_tools.py.  The BOM calculator  *)
(* does not import the forecast service: its runs start from the state in  *)
(* which the service's probe found nothing.                                *)
(***************************************************************************)
BomInit == Init /\ ~PROPHET_AVAILABLE /\ import_raised = "none" /\ environ = {}

(***************************************************************************)
(* build_node.  A BOM record is [parent_code, child_code, alt_part]; a     *)
(* node is [code, level, children], the other fields of a node being       *)
(* copies from the material and inventory maps.  The recursion is a stack  *)
(* of frames [code, level, visited, next, children]: visited is the set    *)
(* the call owns (its caller's copy, with code added), next the index of   *)
(* the next child record, children the nodes built so far.                 *)
(***************************************************************************)
\* most BOM records in one set
MaxBoms == 3

Codes == {"A", "B", "C"}

\* the product whose tree is built
ProductCode == "A"

\* the records: every pair of two codes and the product under itself as
\* regular parts, and one record with the alt_part that marks a substitute
\* (written "alt")
BomRecords ==
    {r \in [parent_code : Codes, child_code : Codes, alt_part : {""}] :
        r.parent_code # r.child_code \/ r.parent_code = ProductCode}
        \cup {[parent_code |-> "A", child_code |-> "C", alt_part |-> "alt"]}

BomInputs == SeqsUpTo(BomRecords, MaxBoms)

\* children_boms: the records of the parent that are no substitutes, in the
\* order of the list
ChildrenBoms(boms, code) ==
    SelectSeq(boms, LAMBDA b : b.parent_code = code /\ b.alt_part # "alt")

\* the fault "no code is ever found visited"
InVisitedNever(code, visited) == FALSE

\* if code in visited
InVisited(code, visited) == code \in visited

\* the frame of a call that passed the visited test: visited.add(code)
Frame(code, level, visited) ==
    [code |-> code, level |-> level, visited |-> visited \cup {code}, next |-> 1,
     children |-> <<>>]

TopFrame == tree_call.stack[Len(tree_call.stack)]

\* the child record the top frame's loop is at
NextChild == ChildrenBoms(tree_call.boms, TopFrame.code)[TopFrame.next]

\* the stack with its top frame replaced
WithTop(frame) == ReplaceAt(tree_call.stack, Len(tree_call.stack), frame)

\* root_node = build_node(product_code, 1, 0, set())
BuildTree ==
    /\ tree_call.pc = "idle"
    /\ \E boms \in BomInputs :
          tree_call' = [pc |-> "building", boms |-> boms,
                        stack |-> <<Frame(ProductCode, 0, {})>>, root |-> <<>>]
    /\ UNCHANGED service_vars
    /\ UNCHANGED <<page_call, inventory_call>>

\* the loop calls build_node on the next child record with a copy of
\* visited, and the child is not in it: a new frame (the recursion is
\* cut off below the stack depth no acyclic path can need)
CallChild ==
    /\ tree_call.pc = "building"
    /\ TopFrame.next <= Len(ChildrenBoms(tree_call.boms, TopFrame.code))
    /\ ~InVisited(NextChild.child_code, TopFrame.visited)
    /\ Len(tree_call.stack) <= Cardinality(Codes)
    /\ tree_call' =
          [tree_call EXCEPT
             !.stack = Append(WithTop([TopFrame EXCEPT !.next = @ + 1]),
                              Frame(NextChild.child_code, TopFrame.level + 1,
                                    TopFrame.visited))]
    /\ UNCHANGED service_vars
    /\ UNCHANGED <<page_call, inventory_call>>

\* the child is in visited: build_node returns None and the loop goes on
SkipVisited ==
    /\ tree_call.pc = "building"
    /\ TopFrame.next <= Len(ChildrenBoms(tree_call.boms, TopFrame.code))
    /\ InVisited(NextChild.child_code, TopFrame.visited)
    /\ tree_call' = [tree_call EXCEPT !.stack = WithTop([TopFrame EXCEPT !.next = @ + 1])]
    /\ UNCHANGED service_vars
    /\ UNCHANGED <<page_call, inventory_call>>

\* the loop is over: the node is returned, to the caller's children or as
\* the root
ReturnNode ==
    /\ tree_call.pc = "building"
    /\ TopFrame.next > Len(ChildrenBoms(tree_call.boms, TopFrame.code))
    /\ LET node == [code |-> TopFrame.code, level |-> TopFrame.level,
                    children |-> TopFrame.children]
           rest == SubSeq(tree_call.stack, 1, Len(tree_call.stack) - 1)
       IN  IF rest = <<>>
           THEN tree_call' = [tree_call EXCEPT !.pc = "built", !.stack = <<>>,
                                               !.root = <<node>>]
           ELSE tree_call' =
                  [tree_call EXCEPT
                     !.stack = ReplaceAt(rest, Len(rest),
                                         [rest[Len(rest)] EXCEPT
                                            !.children = Append(@, node)])]
    /\ UNCHANGED service_vars
    /\ UNCHANGED <<page_call, inventory_call>>

\* the tree is handed on
TreeDone ==
    /\ tree_call.pc = "built"
    /\ tree_call' = NoTreeCall
    /\ UNCHANGED service_vars
    /\ UNCHANGED <<page_call, inventory_call>>

NextTree == BuildTree \/ CallChild \/ SkipVisited \/ ReturnNode \/ TreeDone

\* a call that can take a step takes one
SpecTree == BomInit /\ [][NextTree]_vars /\ WF_vars(NextTree)

(***************************************************************************)
(* load_all_pages / fetch_ontology_data.  What the server answers is not   *)
(* decided by this code: a response is [error, entries, search_after],     *)
(* where error stands for an HTTP error (the request raises), entries is   *)
(* the page and search_after is <<>> for a missing or empty cursor and     *)
(* <<c>> for the cursor c.  requests is the log of the cursors sent, <<>>  *)
(* for a request without one; responses is the log of the answers.         *)
(***************************************************************************)
\* most requests of one load: the data of the server is finite, and its
\* last page is one the loop stops at
MaxPages == 3

\* the values of limit
PageLimits == {1, 2}

\* the entries of the server
PageEntries == {"x", "y"}

\* len(entries) < limit, or no entries, or no cursor to go on with
StoppingPage(response, limit) ==
    \/ response.entries = <<>>
    \/ response.search_after = <<>>
    \/ Len(response.entries) < limit

\* the answers the server can give to the request number k
PageResponses(limit, k) ==
    {r \in [error : {FALSE}, entries : SeqsUpTo(PageEntries, limit),
            search_after : {<<>>, <<1>>, <<2>>}] :
        k = MaxPages => StoppingPage(r, limit)}
        \cup {[error |-> TRUE, entries |-> <<>>, search_after |-> <<>>]}

\* the fault "the cursor of the first page is sent again and again"
NextCursorStale(search_after, response) ==
    IF search_after = <<>> THEN response.search_after ELSE search_after

\* search_after = response.get("search_after")
NextCursor(search_after, response) == response.search_after

\* all_data = [], search_after = None, page = 1
LoadAllPages ==
    /\ page_call.pc = "idle"
    /\ \E limit \in PageLimits :
          page_call' = [NoPageCall EXCEPT !.pc = "loading", !.limit = limit]
    /\ UNCHANGED service_vars
    /\ UNCHANGED <<tree_call, inventory_call>>

\* one turn of the while loop: the request with the cursor at hand, then
\* the tests on its response
FetchPage ==
    /\ page_call.pc = "loading"
    /\ Len(page_call.requests) < MaxPages
    /\ \E response \in PageResponses(page_call.limit, Len(page_call.requests) + 1) :
          LET sent == [page_call EXCEPT
                         !.requests = Append(@, page_call.search_after),
                         !.responses = Append(@, response)]
          IN  page_call' =
                 IF response.error THEN [sent EXCEPT !.pc = "raised"]
                 ELSE IF response.entries = <<>> THEN [sent EXCEPT !.pc = "returned"]
                 ELSE [sent EXCEPT
                         !.all_data = @ \o response.entries,
                         !.search_after = NextCursor(page_call.search_after, response),
                         !.pc = IF NextCursor(page_call.search_after, response) = <<>>
                                     \/ Len(response.entries) < page_call.limit
                                THEN "returned" ELSE "loading"]
    /\ UNCHANGED service_vars
    /\ UNCHANGED <<tree_call, inventory_call>>

\* the caller takes all_data or the exception
PagesReturn ==
    /\ page_call.pc \in {"returned", "raised"}
    /\ page_call' = NoPageCall
    /\ UNCHANGED service_vars
    /\ UNCHANGED <<tree_call, inventory_call>>

NextPages == LoadAllPages \/ FetchPage \/ PagesReturn

SpecPages == BomInit /\ [][NextPages]_vars

(***************************************************************************)
(* The inventory aggregation of load_inventory (bom_calculator_api, "api") *)
(* and of calculate_bom_tree (bom_calculator_tools, "tools").  A record is *)
(* [material_code, item_code, base_qty, available_base_qty, storage_days,  *)
(* unit_price]: "" is a missing or empty code, the quantities are scaled   *)
(* numbers, storage_days is what calculate_storage_days gives for the      *)
(* record's batch_no on the day of the run (below 0 for a batch dated      *)
(* after that day).  The records carry no "quantity" and no                *)
(* "available_quantity" key.  inventory_map is a function on the codes.    *)
(***************************************************************************)
\* most inventory records in one load
MaxRecords == 3

InventoryRecords ==
    {[material_code |-> "M1", item_code |-> "", base_qty |-> 5500,
      available_base_qty |-> 3000, storage_days |-> 10, unit_price |-> 2000],
     [material_code |-> "M1", item_code |-> "", base_qty |-> 2000,
      available_base_qty |-> 2000, storage_days |-> 40, unit_price |-> 3000],
     [material_code |-> "M1", item_code |-> "", base_qty |-> 1000,
      available_base_qty |-> 0, storage_days |-> -3, unit_price |-> 2000],
     [material_code |-> "M2", item_code |-> "", base_qty |-> 7000,
      available_base_qty |-> 1000, storage_days |-> -3, unit_price |-> 5000],
     [material_code |-> "", item_code |-> "", base_qty |-> 9000,
      available_base_qty |-> 9000, storage_days |-> 99, unit_price |-> 1000],
     [material_code |-> "", item_code |-> "M1", base_qty |-> 4000,
      available_base_qty |-> 4000, storage_days |-> 60, unit_price |-> 1000]}

InventoryInputs == SeqsUpTo(InventoryRecords, MaxRecords)

\* the map m with the entry of code set to entry
WithEntry(m, code, entry) ==
    [c \in DOMAIN m \cup {code} |-> IF c = code THEN entry ELSE m[c]]

\* api lines 332-351: one turn of the loop over inventory_data
AddItemApi(m, item) ==
    LET material_code == item.material_code
    IN  IF material_code = "" THEN m
        ELSE IF material_code \in DOMAIN m
            THEN WithEntry(m, material_code,
                     [m[material_code] EXCEPT
                        !.available_stock = @ + item.available_base_qty,
                        !.current_stock = @ + item.base_qty,
                        !.storage_days = Max(@, item.storage_days)])
        ELSE WithEntry(m, material_code,
                 [current_stock |-> item.base_qty,
                  available_stock |-> item.available_base_qty,
                  storage_days |-> item.storage_days,
                  unit_price |-> item.unit_price])

\* tools lines 201-206: the entry a defaultdict makes for a new code
DefaultEntry ==
    [current_stock |-> 0, available_stock |-> 0, storage_days |-> 0, unit_price |-> 0]

\* tools lines 208-224: one turn of the loop over inventory_data
AddItemTools(m, inv) ==
    LET code == IF inv.material_code # "" THEN inv.material_code ELSE inv.item_code
        entry == IF code \in DOMAIN m THEN m[code] ELSE DefaultEntry
    IN  IF code = "" THEN m
        ELSE WithEntry(m, code,
                 [current_stock |-> entry.current_stock + inv.base_qty,
                  available_stock |-> entry.available_stock + inv.available_base_qty,
                  storage_days |-> Max(entry.storage_days, inv.storage_days),
                  unit_price |-> inv.unit_price])

\* the loop over inventory_data, from the empty map
RECURSIVE Aggregate(_, _)
Aggregate(variant, inventory_data) ==
    IF inventory_data = <<>> THEN <<>>
    ELSE LET m == Aggregate(variant, SubSeq(inventory_data, 1, Len(inventory_data) - 1))
             item == inventory_data[Len(inventory_data)]
         IN  IF variant = "api" THEN AddItemApi(m, item) ELSE AddItemTools(m, item)

\* the aggregation of one variant on one list of records
RunInventory(variant) ==
    /\ inventory_call.pc = "idle"
    /\ \E inventory_data \in InventoryInputs :
          inventory_call' = [pc |-> "returned", variant |-> variant,
                             inventory_data |-> inventory_data,
                             inventory_map |-> Aggregate(variant, inventory_data)]
    /\ UNCHANGED service_vars
    /\ UNCHANGED <<tree_call, page_call>>

\* the map is handed on
InventoryReturn ==
    /\ inventory_call.pc = "returned"
    /\ inventory_call' = NoInventoryCall
    /\ UNCHANGED service_vars
    /\ UNCHANGED <<tree_call, page_call>>

NextInventory ==
    \/ \E variant \in {"api", "tools"} : RunInventory(variant)
    \/ InventoryReturn

SpecInventory == BomInit /\ [][NextInventory]_vars

(***************************************************************************)
(* Properties.                                                             *)
(***************************************************************************)
ForecastReturned == op = "forecast" /\ pc = "returned"

OnFallback == result.branch \in {"holt_winters", "simple_exponential"}

\* the state the Holt-Winters extrapolation starts from
FinalState == result.states[Len(result.states)]

\* C1: a forecast returned by the fallback path (Holt-Winters or simple
\* exponential smoothing), for a series of at least 2 points and a horizon
\* of at least 1, has as many forecast values and as many confidence
\* intervals as forecast_periods.
C1_LengthsMatch ==
    (ForecastReturned /\ OnFallback /\ Len(df) >= 2 /\ forecast_periods >= 1)
        => /\ Len(result.forecast_values) = forecast_periods
           /\ Len(result.confidence_intervals) = forecast_periods

C1_Witness ==
    /\ ForecastReturned
    /\ result.branch = "holt_winters"
    /\ Len(df) >= 12
    /\ forecast_periods = MaxPeriods
    /\ Len(result.forecast_values) = MaxPeriods
    /\ Len(result.confidence_intervals) = MaxPeriods

\* C2: every forecast value and every lower and upper bound that forecast
\* returns is an integer >= 0, on the Holt-Winters, the simple-exponential
\* and the external-model path.
C2_NonNegative ==
    ForecastReturned
        => /\ result.branch \in {"holt_winters", "simple_exponential", "prophet"}
           /\ \A k \in 1..Len(result.forecast_values) : result.forecast_values[k] \in Nat
           /\ \A k \in 1..Len(result.confidence_intervals) :
                /\ result.confidence_intervals[k].lower \in Nat
                /\ result.confidence_intervals[k].upper \in Nat

\* the raw Holt-Winters forecast of the first step is negative (level, trend
\* and margin pull below 0) and the returned value and bounds are clamped
C2_Witness ==
    /\ ForecastReturned
    /\ result.branch = "holt_winters"
    /\ \E i \in 1..Len(df) : df[i].y > 0
    /\ FinalState.trend < 0
    /\ HWRawForecast(FinalState, Len(df), 0, SeasonalOf(params)) < 0
    /\ result.forecast_values[1] = 0
    /\ result.confidence_intervals[1].lower = 0

AllWellFormed ==
    \A i \in 1..Len(historical_data) :
        historical_data[i].month \in {FormatMonth(y, m) : y \in 2023..2024, m \in 1..12}

\* C4 (as claimed): forecast called with fewer than 2 points (0 or 1, their
\* periods well formed) fails with the "At least 2 historical data points
\* are required" ValueError, returns nothing and reaches no backend.
C4_InsufficientData ==
    (op = "forecast" /\ pc # "idle" /\ Len(historical_data) < 2 /\ AllWellFormed)
        => /\ pc = "raised"
           /\ raised = InsufficientData
           /\ result = NoResult
           /\ backend_calls = <<>>

\* forecast([]) leaves prepare_data with the KeyError of sort_values('ds')
\* on a frame without columns, before the length is tested
C4_Witness ==
    /\ op = "forecast"
    /\ pc = "raised"
    /\ historical_data = <<>>
    /\ raised = "KeyError"
    /\ backend_calls = <<>>

\* C5 (as claimed): prepare_data parses "2024-01" and "2024-01-01" to the
\* same month without error.
C5_BothFormsAccepted ==
    (op = "prepare_data" /\ pc # "idle" /\ historical_data # <<>>
        /\ \A i \in 1..Len(historical_data) :
              historical_data[i].month \in {FormatMonth(2024, 1), FullDate})
        => /\ pc = "returned"
           /\ \A i \in 1..Len(df) :
                df[i].ds = [ok |-> TRUE, year |-> 2024, month |-> 1, day |-> 1]

\* neither of the two strptime formats of prepare_data parses the string
NeitherFormatParses(month) ==
    /\ ~StrptimeYMD(month \o <<"-", "0", "1">>).ok
    /\ ~StrptimeYM(month).ok

\* "2024-01-01" alone: "2024-01-01-01" does not match %Y-%m-%d and
\* "2024-01-01" does not match %Y-%m, so the ValueError leaves prepare_data
C5_Witness ==
    /\ op = "prepare_data"
    /\ pc = "raised"
    /\ Len(historical_data) = 1
    /\ historical_data[1].month = FullDate
    /\ NeitherFormatParses(FullDate)
    /\ ParseMonth(FormatMonth(2024, 1)).ok
    /\ raised = "ValueError"

\* C6: when a point's period string parses under neither format,
\* prepare_data (alone or inside forecast) fails with the ValueError of the
\* date parsing and produces no series, wherever the point sits.
C6_MalformedPeriod ==
    (pc # "idle"
        /\ \E i \in 1..Len(historical_data) : NeitherFormatParses(historical_data[i].month))
        => /\ pc = "raised"
           /\ raised = "ValueError"
           /\ df = <<>>
           /\ result = NoResult
           /\ backend_calls = <<>>

\* the malformed point is the last of three, after two that parse
C6_Witness ==
    /\ op = "prepare_data"
    /\ pc = "raised"
    /\ raised = "ValueError"
    /\ Len(historical_data) = 3
    /\ historical_data[3].month = NotADate
    /\ \A i \in 1..2 : ~NeitherFormatParses(historical_data[i].month)
    /\ df = <<>>

NonDecreasing(frame) ==
    \A i \in 1..(Len(frame) - 1) : DateOrd(frame[i].ds) <= DateOrd(frame[i + 1].ds)

StrictlyIncreasing(frame) ==
    \A i \in 1..(Len(frame) - 1) : DateOrd(frame[i].ds) < DateOrd(frame[i + 1].ds)

\* no two points of the call name the same month
DistinctMonths ==
    \A i, j \in 1..Len(historical_data) :
        i # j => ParseMonth(historical_data[i].month) # ParseMonth(historical_data[j].month)

\* C7 (as claimed): the frame prepare_data returns is strictly increasing
\* by period, with no duplicate periods, for every input.
C7_StrictlyIncreasing ==
    (op = "prepare_data" /\ pc = "returned") => StrictlyIncreasing(df)

\* what prepare_data does give: one row per input point, sorted ascending
\* (non-decreasing) by period, strictly increasing exactly when no two
\* input points name the same month.
SortedAscending ==
    (op = "prepare_data" /\ pc = "returned")
        => /\ Len(df) = Len(historical_data)
           /\ NonDecreasing(df)
           /\ StrictlyIncreasing(df) <=> DistinctMonths

\* an unsorted input that names one month twice
C7_Witness ==
    /\ op = "prepare_data"
    /\ pc = "returned"
    /\ Len(historical_data) = 3
    /\ historical_data[1].month = FormatMonth(2024, 2)
    /\ historical_data[2].month = FormatMonth(2024, 1)
    /\ historical_data[3].month = FormatMonth(2024, 1)
    /\ NonDecreasing(df)
    /\ ~StrictlyIncreasing(df)

\* C8: with the capability flag true, a failure of the external model in a
\* forecast call (cmdstan path, construction, fit or predict) reaches the
\* caller: the call returns no Holt-Winters or simple-exponential result
\* and invokes the external backend once and no other.
C8_ExternalFailurePropagates ==
    (op = "forecast" /\ pc # "idle" /\ use_prophet /\ external.fails_at # "none")
        => /\ pc = "raised"
           /\ raised = ExternalModelFailure(external.fails_at)
           /\ result = NoResult
           /\ backend_calls = <<"prophet">>

C8_Witness ==
    /\ op = "forecast"
    /\ pc = "raised"
    /\ use_prophet
    /\ external.fails_at = "fit"
    /\ Len(df) >= 12
    /\ backend_calls = <<"prophet">>
    /\ result.branch = "none"

\* the backend the flag selects
SelectedBackend == IF PROPHET_AVAILABLE THEN "prophet" ELSE "holt_winters"

\* C9: the import never raises, the instance's flag is the module's flag,
\* every forecast call that reaches a backend reaches the one the flag
\* selects, and no step (a call, successful or failed) changes the flag.
C9_BackendSelectedOnce ==
    /\ [](/\ import_raised = "none"
          /\ use_prophet = PROPHET_AVAILABLE
          /\ \A k \in 1..Len(backend_calls) : backend_calls[k] = SelectedBackend)
    /\ [][PROPHET_AVAILABLE' = PROPHET_AVAILABLE /\ use_prophet' = use_prophet]_vars

\* a failed call on the fallback backend, after a capability probe that
\* found no external model
C9_Witness ==
    /\ ~PROPHET_AVAILABLE
    /\ import_raised = "none"
    /\ op = "forecast"
    /\ pc = "raised"
    /\ raised = InsufficientData

\* C10: on the fallback path a series of length n >= 2 is forecast by
\* Holt-Winters exactly when n >= season_length and by simple exponential
\* smoothing exactly when n < season_length, season_length being 12 with
\* yearly_seasonality and 1 without (so never simple without it).
C10_BranchByLength ==
    (ForecastReturned /\ ~use_prophet)
        => LET n == Len(df)
               season_length == IF params.yearly_seasonality THEN 12 ELSE 1
           IN  /\ n >= 2
               /\ result.branch = "holt_winters" <=> n >= season_length
               /\ result.branch = "simple_exponential" <=> n < season_length
               /\ ~params.yearly_seasonality => result.branch # "simple_exponential"

\* a 2-element series with yearly_seasonality goes through the simple branch
C10_Witness ==
    /\ ForecastReturned
    /\ ~use_prophet
    /\ Len(df) = 2
    /\ params.yearly_seasonality
    /\ result.branch = "simple_exponential"
    /\ Len(result.forecast_values) = forecast_periods

\* the residual standard error of the returned fallback forecast
ResidualStdError == StdError(SeqMinus(ValuesOf(df), result.fitted_values))

\* C11: when the residual standard error is > 0, the margin of forecast
\* step h + 1 is at least the margin of step h, for every h >= 1, in the
\* Holt-Winters and in the simple-exponential forecaster.
C11_MarginWidens ==
    (ForecastReturned /\ OnFallback)
        => LET std_error == ResidualStdError
               z_score == ZScore(params.interval_width)
           IN  std_error > 0
                 => \A h \in 1..LongHorizon :
                       Margin(z_score, std_error, h) >= Margin(z_score, std_error, h - 1)

\* a forecast over the long horizon with residuals: the margin grows from
\* step 1 to step 2 and the returned interval of the last step is wider
\* than that of the first
C11_Witness ==
    /\ ForecastReturned
    /\ OnFallback
    /\ forecast_periods = LongHorizon
    /\ ResidualStdError > 0
    /\ Margin(ZScore(params.interval_width), ResidualStdError, 1)
          > Margin(ZScore(params.interval_width), ResidualStdError, 0)
    /\ result.confidence_intervals[LongHorizon].upper
            - result.confidence_intervals[LongHorizon].lower
          > result.confidence_intervals[1].upper - result.confidence_intervals[1].lower

\* the series of the call is constant 100 over at least one season of 12
ConstantHundred == Len(df) >= 12 /\ \A i \in 1..Len(df) : df[i].y = ToFloat(100)

\* what "about 1.0" and "about 0" allow: a fifth
Tolerance == SCALE \div 5

\* C12 (as claimed): a constant series of 100 of at least season_length
\* points, through Holt-Winters with yearly_seasonality and growth = flat,
\* in either seasonality mode, gives a forecast within 100 +/- 1 at every
\* horizon step, every seasonal factor about 1.0 and a trend about 0 at
\* the end of fitting.
C12_ConstantSeries ==
    (ForecastReturned /\ result.branch = "holt_winters" /\ params.yearly_seasonality
        /\ params.growth = "flat" /\ ConstantHundred)
        => /\ \A k \in 1..Len(result.forecast_values) :
                 Abs(result.forecast_values[k] - 100) <= 1
           /\ \A p \in 1..Len(FinalState.seasonal_factors) :
                 Abs(FinalState.seasonal_factors[p] - SCALE) <= Tolerance
           /\ Abs(FinalState.trend) <= Tolerance

\* twelve values of 100, additive, flat, over the long horizon: the trend
\* left by fitting is below 0 and step 25 of the forecast is 98
C12_Witness ==
    /\ ForecastReturned
    /\ result.branch = "holt_winters"
    /\ params.yearly_seasonality
    /\ params.growth = "flat"
    /\ params.seasonality_mode = "additive"
    /\ ConstantHundred
    /\ Len(df) = 12
    /\ forecast_periods = LongHorizon
    /\ FinalState.trend < 0
    /\ result.forecast_values[1] = 100
    /\ result.forecast_values[25] = 98

\* the series of the call is 1, 2, ..., 12
LinearSeries == Len(df) = 12 /\ \A i \in 1..Len(df) : df[i].y = ToFloat(i)

\* C13: the series 1, 2, ..., 12 through Holt-Winters with growth = linear
\* and without yearly seasonality gives forecast values that never fall from
\* one horizon step to the next and are not flat: over a horizon of at
\* least 2 the last value is above the first.
C13_LinearTrendContinues ==
    (ForecastReturned /\ result.branch = "holt_winters" /\ ~params.yearly_seasonality
        /\ params.growth = "linear" /\ LinearSeries)
        => /\ \A k \in 1..(Len(result.forecast_values) - 1) :
                 result.forecast_values[k + 1] >= result.forecast_values[k]
           /\ forecast_periods >= 2
                 => result.forecast_values[forecast_periods] > result.forecast_values[1]

\* the long horizon: the forecast starts above the last actual value 12 and
\* climbs with a trend of about 1 per step
C13_Witness ==
    /\ ForecastReturned
    /\ result.branch = "holt_winters"
    /\ ~params.yearly_seasonality
    /\ params.growth = "linear"
    /\ LinearSeries
    /\ forecast_periods = LongHorizon
    /\ FinalState.trend > 0
    /\ result.forecast_values[1] > 12
    /\ result.forecast_values[LongHorizon] > result.forecast_values[1] + LongHorizon \div 2

\* the sum of f over the finite set S
RECURSIVE SumFcn(_, _)
SumFcn(f, S) ==
    IF S = {} THEN 0
    ELSE LET x == CHOOSE x \in S : TRUE
         IN  f[x] + SumFcn(f, S \ {x})

\* the points of the call whose actual value is not 0
NonZeroPoints == {i \in 1..Len(df) : df[i].y # 0}

\* C14: the metrics of a returned forecast hold no mape exactly when every
\* actual value is 0; otherwise mape is 100 times the mean, over the points
\* with a non-zero actual only, of |actual - fitted| / |actual|; mae and
\* rmse are always there and >= 0.
C14_Metrics ==
    ForecastReturned
        => LET pct == [i \in NonZeroPoints |->
                          FDiv(Abs(df[i].y - result.fitted_values[i]), Abs(df[i].y))]
           IN  /\ result.metrics.mape = <<>> <=> NonZeroPoints = {}
               /\ NonZeroPoints # {}
                     => result.metrics.mape
                          = <<100 * FDivInt(SumFcn(pct, NonZeroPoints),
                                            Cardinality(NonZeroPoints))>>
               /\ result.metrics.mae \in Nat
               /\ result.metrics.rmse \in Nat

\* a fallback forecast of a series with a zero and a non-zero actual whose
\* fit is not exact: mape is there and > 0
C14_Witness ==
    /\ ForecastReturned
    /\ OnFallback
    /\ \E i \in 1..Len(df) : df[i].y = 0 /\ result.fitted_values[i] # 0
    /\ NonZeroPoints # {}
    /\ Len(result.metrics.mape) = 1
    /\ result.metrics.mape[1] > 0
    /\ result.metrics.mae > 0

\* C16 (as claimed): with growth = flat the Holt-Winters trend is 0 in every
\* state of the forecaster: at initialization, after every fitting step and
\* in the state the extrapolation starts from.
C16_FlatTrendZero ==
    (ForecastReturned /\ result.branch = "holt_winters" /\ params.growth = "flat")
        => \A k \in 1..Len(result.states) : result.states[k].trend = 0

\* growth = flat: the trend is 0 at initialization, and the fit loop, which
\* updates it whatever the growth, leaves another value
C16_Witness ==
    /\ ForecastReturned
    /\ result.branch = "holt_winters"
    /\ params.growth = "flat"
    /\ result.states[1].trend = 0
    /\ result.states[2].trend # 0
    /\ FinalState.trend # 0
    /\ FinalState.trend = HWTrend(result.states[Len(df)], FinalState.level,
                                  result.states[Len(df)].level)

\* what "the mean is 1" allows for rounding: a hundredth
Epsilon == SCALE \div 100

\* the seasonal factors of state st have mean 1
MeanIsOne(st) == Abs(Mean(st.seasonal_factors) - SCALE) <= Epsilon

\* the normalization of lines 244-246 does what it is there for: the
\* factors the fit loop starts from have mean 1
InitNormalized ==
    (ForecastReturned /\ result.branch = "holt_winters") => MeanIsOne(result.states[1])

\* C17 (as claimed): the Holt-Winters seasonal factors have mean 1 after
\* initialization, after each fitting step and in the state the
\* extrapolation starts from.
C17_SeasonalMeanOne ==
    (ForecastReturned /\ result.branch = "holt_winters")
        => \A k \in 1..Len(result.states) : MeanIsOne(result.states[k])

\* twelve factors with mean 1 at initialization whose mean has left 1 by
\* more than a fifth at the end of fitting
C17_Witness ==
    /\ ForecastReturned
    /\ result.branch = "holt_winters"
    /\ params.yearly_seasonality
    /\ Len(FinalState.seasonal_factors) = 12
    /\ MeanIsOne(result.states[1])
    /\ Abs(Mean(FinalState.seasonal_factors) - SCALE) > Tolerance

\* C18 (as claimed): without yearly seasonality (season_length 1) the one
\* seasonal factor is 1 at initialization and after every fitting step, so
\* that fitted values and forecasts come from level and trend alone.
C18_NoSeasonalComponent ==
    (ForecastReturned /\ result.branch = "holt_winters" /\ ~params.yearly_seasonality)
        => /\ \A k \in 1..Len(result.states) :
                 result.states[k].seasonal_factors = <<SCALE>>
           /\ \A k \in 1..Len(df) :
                 result.fitted_values[k] = result.states[k].level + result.states[k].trend

\* season_length 1: the factor is 1 at initialization and, updated by the
\* fit loop like any other, ends more than a fifth away from 1
C18_Witness ==
    /\ ForecastReturned
    /\ result.branch = "holt_winters"
    /\ ~params.yearly_seasonality
    /\ result.states[1].seasonal_factors = <<SCALE>>
    /\ Len(FinalState.seasonal_factors) = 1
    /\ Abs(FinalState.seasonal_factors[1] - SCALE) > Tolerance
    /\ FinalState.seasonal_factors[1]
          = HWSeasonalFactor(df[Len(df)].y, result.states[Len(df)].seasonal_factors[1],
                             FinalState.level, SeasonalOf(params))

\* (last - first) / (n - 1)
SimpleSlope(values) == FDivInt(values[Len(values)] - values[1], Max(1, Len(values) - 1))

\* the difference of the means of values[from..to] and of the first season,
\* divided by season_length
SeasonMeansSlope(values, season_length, to) ==
    FDivInt(Mean(SubSeq(values, season_length + 1, to))
              - Mean(SubSeq(values, 1, season_length)), season_length)

\* C19 (as claimed): with growth = linear the initial trend is the
\* difference of the means of the first two seasons divided by
\* season_length only when n >= 2 * season_length, and the simple slope
\* (last - first) / (n - 1) for season_length <= n < 2 * season_length.
C19_InitialTrend ==
    (ForecastReturned /\ result.branch = "holt_winters" /\ params.growth = "linear")
        => LET values == ValuesOf(df)
               season_length == SeasonLength(params)
           IN  result.states[1].trend
                 = IF Len(values) >= 2 * season_length
                   THEN SeasonMeansSlope(values, season_length, 2 * season_length)
                   ELSE SimpleSlope(values)

\* thirteen points, season_length 12: the initial trend is taken from the
\* mean of the first season and the one point after it, and is not the
\* simple slope
C19_Witness ==
    /\ ForecastReturned
    /\ result.branch = "holt_winters"
    /\ params.growth = "linear"
    /\ params.yearly_seasonality
    /\ Len(df) = 13
    /\ result.states[1].trend = SeasonMeansSlope(ValuesOf(df), 12, 13)
    /\ result.states[1].trend # SimpleSlope(ValuesOf(df))

\* C20: the fit loop takes the points in index order, each once, and leaves
\* n fitted values; in the step on point k the fitted value comes from the
\* state before the step, the new level from that state's level + trend,
\* the new trend from the new level minus the level before the step, and
\* the phase's seasonal factor from the new level, the other factors being
\* left alone.
C20_StepOrder ==
    (ForecastReturned /\ result.branch = "holt_winters")
        => LET values == ValuesOf(df)
               n == Len(df)
               seasonal == SeasonalOf(params)
               season_length == SeasonLength(params)
           IN  /\ Len(result.fitted_values) = n
               /\ Len(result.states) = n + 1
               /\ \A k \in 1..n :
                    LET before == result.states[k]
                        after == result.states[k + 1]
                        phase == ((k - 1) % season_length) + 1
                        sf == before.seasonal_factors[phase]
                    IN  /\ result.fitted_values[k]
                              = (IF seasonal = "mul" THEN FMul(before.level + before.trend, sf)
                                 ELSE before.level + before.trend + sf)
                        /\ after.level = HWLevel(before, values[k], sf, seasonal, Alpha(params))
                        /\ after.trend = FMul(Beta, after.level - before.level)
                                           + FMul(SCALE - Beta, before.trend)
                        /\ after.seasonal_factors[phase]
                              = HWSeasonalFactor(values[k], sf, after.level, seasonal)
                        /\ \A q \in 1..season_length :
                              q # phase => after.seasonal_factors[q] = before.seasonal_factors[q]

\* thirteen points over twelve phases, the last step on phase 1 again: the
\* level moves in that step, so that the level of before the step would
\* give another seasonal factor and the level of after it another trend
C20_Witness ==
    /\ ForecastReturned
    /\ result.branch = "holt_winters"
    /\ params.yearly_seasonality
    /\ Len(df) = 13
    /\ Len(result.fitted_values) = 13
    /\ LET before == result.states[13]
           after == result.states[14]
       IN  /\ after.level # before.level
           /\ after.seasonal_factors[1]
                 # HWSeasonalFactor(df[13].y, before.seasonal_factors[1], before.level,
                                    SeasonalOf(params))
           /\ after.trend # FMul(SCALE - Beta, before.trend)
           /\ after.seasonal_factors[1] # result.states[1].seasonal_factors[1]

\* C21: in multiplicative mode the level after a fitting step is
\* alpha*(actual/factor) + (1-alpha)*(level+trend) when the phase's factor
\* before the step is positive, and alpha*(actual - factor) +
\* (1-alpha)*(level+trend), without a division, when it is zero or negative.
C21_NonPositiveFactorLevel ==
    (ForecastReturned /\ result.branch = "holt_winters"
        /\ params.seasonality_mode = "multiplicative")
        => \A k \in 1..Len(df) :
              LET before == result.states[k]
                  after == result.states[k + 1]
                  sf == before.seasonal_factors[((k - 1) % SeasonLength(params)) + 1]
                  actual == df[k].y
                  carried == FMul(SCALE - Alpha(params), before.level + before.trend)
              IN  after.level = IF sf > 0
                                THEN FMul(Alpha(params), FDiv(actual, sf)) + carried
                                ELSE FMul(Alpha(params), actual - sf) + carried

\* a multiplicative fit with a step on a factor below 0, where subtracting
\* the factor and dividing by 1 differ, a step on a factor of 0, and steps
\* on positive factors
C21_Witness ==
    /\ ForecastReturned
    /\ result.branch = "holt_winters"
    /\ params.seasonality_mode = "multiplicative"
    /\ result.states[1].seasonal_factors[1] < 0
    /\ df[1].y < 0
    /\ result.states[2].level
          = FMul(Alpha(params), df[1].y - result.states[1].seasonal_factors[1])
              + FMul(SCALE - Alpha(params), result.states[1].level + result.states[1].trend)
    /\ result.states[2].level
          # FMul(Alpha(params), df[1].y)
              + FMul(SCALE - Alpha(params), result.states[1].level + result.states[1].trend)
    /\ result.states[2].seasonal_factors[2] > 0

\* C22: the Holt-Winters state after the last fitting step is the state of
\* the whole horizon: the forecast of every step h is made from that level,
\* that trend and those seasonal factors (h times the trend, the factor of
\* phase n + h - 1), and it is the forecast of step h of a call that asks
\* for h steps only.
C22_StateFrozen ==
    (ForecastReturned /\ result.branch = "holt_winters")
        => LET n == Len(df)
               season_length == SeasonLength(params)
               frozen == result.states[n + 1]
           IN  /\ Len(result.states) = n + 1
               /\ \A h \in 1..forecast_periods :
                     LET sf == frozen.seasonal_factors[((n + h - 1) % season_length) + 1]
                         fc == IF SeasonalOf(params) = "mul"
                               THEN FMul(frozen.level + frozen.trend * h, sf)
                               ELSE frozen.level + frozen.trend * h + sf
                     IN  /\ result.forecast_values[h] = Max(0, Round(fc))
                         /\ result.forecast_values[h]
                               = holt_winters(ValuesOf(df), h, params).forecast_values[h]

\* a forecast over the long horizon from a state with a trend and with
\* factors that differ, returning different values at different steps
C22_Witness ==
    /\ ForecastReturned
    /\ result.branch = "holt_winters"
    /\ params.yearly_seasonality
    /\ forecast_periods = LongHorizon
    /\ Len(result.forecast_values) = LongHorizon
    /\ FinalState.trend # 0
    /\ FinalState.seasonal_factors[1] # FinalState.seasonal_factors[2]
    /\ result.forecast_values[1] # result.forecast_values[2]
    /\ result.forecast_values[2] # result.forecast_values[LongHorizon]

\* the interval loop has ended, by return or by exception, on a margin
\* that is not finite
NonFiniteMargin ==
    /\ interval_call.pc \in {"returned", "raised"}
    /\ interval_call.std_error.kind # "finite"

\* a NaN margin gives round(0.8 * forecast) and round(1.2 * forecast),
\* floored at 0, in both forecasters, and no error
NaNMarginSubstituted ==
    (interval_call.pc \in {"returned", "raised"} /\ IsNaN(interval_call.std_error))
        => /\ interval_call.raised = "none"
           /\ \A k \in 1..Len(interval_call.forecast_values) :
                 LET fc == interval_call.forecast_values[k]
                 IN  interval_call.confidence_intervals[k]
                        = [lower |-> Max(0, Round((ToFloat(fc) * 8) \div 10)),
                           upper |-> Max(0, Round((ToFloat(fc) * 12) \div 10))]

\* C23 (as claimed): whenever the margin is NaN or an infinity, both
\* fallback forecasters return lower = round(0.8 * forecast) and upper =
\* round(1.2 * forecast), floored at 0, for every step, and raise no error.
C23_NonFiniteMargin ==
    NonFiniteMargin
        => /\ interval_call.raised = "none"
           /\ Len(interval_call.confidence_intervals) = Len(interval_call.forecast_values)
           /\ \A k \in 1..Len(interval_call.confidence_intervals) :
                 LET fc == interval_call.forecast_values[k]
                 IN  interval_call.confidence_intervals[k]
                        = [lower |-> Max(0, Round((ToFloat(fc) * 8) \div 10)),
                           upper |-> Max(0, Round((ToFloat(fc) * 12) \div 10))]

\* the standard error is +Infinity, so every margin is: the loop ends in
\* the exception of round(), in either forecaster
C23_Witness ==
    /\ interval_call.pc = "raised"
    /\ interval_call.std_error = Infinity(1)
    /\ interval_call.forecast_values # <<>>
    /\ interval_call.raised = "OverflowError: cannot convert float infinity to integer"
    /\ interval_call.confidence_intervals = <<>>

SimpleEnded == simple_call.pc \in {"returned", "raised"}

\* the level after the last point
SimpleFinalLevel == simple_call.fitted_values[Len(simple_call.fitted_values)]

\* the levels start at the first value and take each later point once, in
\* order: level <- alpha*actual + (1-alpha)*level
SimpleLevelsInOrder ==
    SimpleEnded
        => /\ Len(simple_call.fitted_values) = Len(simple_call.values)
           /\ simple_call.fitted_values[1] = simple_call.values[1]
           /\ \A k \in 2..Len(simple_call.values) :
                 simple_call.fitted_values[k]
                    = FloatAdd(FloatMul(Finite(simple_call.alpha), simple_call.values[k]),
                               FloatMul(Finite(SCALE - simple_call.alpha),
                                        simple_call.fitted_values[k - 1]))

\* with a finite final level every step returns max(0, round(final level))
SimpleFiniteLevelReturned ==
    (SimpleEnded /\ SimpleFinalLevel.kind = "finite")
        => /\ simple_call.raised = "none"
           /\ Len(simple_call.forecast_values) = simple_call.forecast_periods
           /\ \A k \in 1..simple_call.forecast_periods :
                 simple_call.forecast_values[k] = Max(0, Round(SimpleFinalLevel.v))

\* C24 (as claimed): the simple-exponential forecaster starts with the
\* first value as level, applies level <- alpha*actual + (1-alpha)*level
\* once for each later point in order, and returns at every step
\* max(0, round(final level)), or max(0, round(series mean)) when the final
\* level is NaN or an infinity.
C24_SimpleExponential ==
    SimpleEnded
        => /\ SimpleLevelsInOrder
           /\ simple_call.raised = "none"
           /\ Len(simple_call.forecast_values) = simple_call.forecast_periods
           /\ LET mean == FloatMean(simple_call.values)
                  expected == IF SimpleFinalLevel.kind = "finite" THEN SimpleFinalLevel
                              ELSE mean
              IN  /\ expected.kind = "finite"
                  /\ \A k \in 1..simple_call.forecast_periods :
                        simple_call.forecast_values[k] = Max(0, Round(expected.v))

\* a first quantity of +Infinity and finite ones after it: every level is
\* +Infinity, no mean is taken, and round() raises
C24_Witness ==
    /\ simple_call.pc = "raised"
    /\ simple_call.values[1] = Infinity(1)
    /\ \A k \in 2..Len(simple_call.values) : simple_call.values[k].kind = "finite"
    /\ SimpleFinalLevel = Infinity(1)
    /\ simple_call.raised = "OverflowError: cannot convert float infinity to integer"
    /\ simple_call.forecast_values = <<>>

\* C25: on the external path a returned forecast has one value and one
\* interval for each requested period; value k is max(0, round(yhat)) of
\* the k-th future row of the external model's frame (the last
\* forecast_periods rows), and the bounds are max(0, round(yhat_lower)) and
\* max(0, round(yhat_upper)) of the same row.
C25_ExternalReshaped ==
    (ForecastReturned /\ result.branch = "prophet")
        => /\ Len(result.forecast_values) = forecast_periods
           /\ Len(result.confidence_intervals) = forecast_periods
           /\ \A k \in 1..forecast_periods :
                 LET yhat == external.yhat + (k - 1) * external.drift
                 IN  /\ result.forecast_values[k] = Max(0, Round(yhat))
                     /\ result.confidence_intervals[k]
                           = [lower |-> Max(0, Round(yhat - external.spread)),
                              upper |-> Max(0, Round(yhat + external.spread))]

\* two future rows that differ from each other and from the rows of the
\* history: 1.5 and 2.5 (both rounded to 2), bounds 0.5 (0) and 3.5 (4)
C25_Witness ==
    /\ ForecastReturned
    /\ result.branch = "prophet"
    /\ forecast_periods = 2
    /\ external.drift # 0
    /\ Len(df) >= 12
    /\ df[1].y + external.bias # external.yhat
    /\ result.forecast_values = <<2, 2>>
    /\ result.confidence_intervals[1].lower = 0
    /\ result.confidence_intervals[2] = [lower |-> 2, upper |-> 4]

\* every interval a forecast of the fallback path returns contains the
\* forecast value of its step
FallbackIntervalContainsForecast ==
    (ForecastReturned /\ OnFallback)
        => \A k \in 1..Len(result.forecast_values) :
              /\ result.confidence_intervals[k].lower <= result.forecast_values[k]
              /\ result.forecast_values[k] <= result.confidence_intervals[k].upper

\* C26: every interval the interval loop of a fallback forecaster returns
\* contains the forecast value of its step, lower <= forecast <= upper,
\* also when the lower bound is clamped to 0 and when a NaN margin is
\* replaced by the 0.8 and 1.2 multiples.
C26_IntervalContainsForecast ==
    interval_call.pc = "returned"
        => /\ Len(interval_call.confidence_intervals) = Len(interval_call.forecast_values)
           /\ \A k \in 1..Len(interval_call.forecast_values) :
                 /\ interval_call.confidence_intervals[k].lower
                       <= interval_call.forecast_values[k]
                 /\ interval_call.forecast_values[k]
                       <= interval_call.confidence_intervals[k].upper

\* the simple forecaster's loop on the forecasts 5 and 12 with a NaN
\* margin: the intervals 4..6 and 10..14
C26_Witness ==
    /\ interval_call.pc = "returned"
    /\ interval_call.forecaster = "simple_exponential"
    /\ IsNaN(interval_call.std_error)
    /\ interval_call.forecast_values = <<5, 12>>
    /\ interval_call.confidence_intervals
          = <<[lower |-> 4, upper |-> 6], [lower |-> 10, upper |-> 14]>>

\* a period of the call's list that neither format parses
SomeMalformed ==
    \E i \in 1..Len(historical_data) : NeitherFormatParses(historical_data[i].month)

\* C27: forecast parses every period before it tests the length, and tests
\* the length before it calls a backend: a list with a malformed period
\* fails with the ValueError of the parse, whatever its length and never
\* with the "At least 2 historical data points" error; a list of fewer than
\* 2 points fails and calls no backend; and a backend is called only for a
\* list of at least 2 points that all parse.
C27_ValidationOrder ==
    (op = "forecast" /\ pc # "idle")
        => /\ SomeMalformed => /\ pc = "raised"
                                /\ raised = "ValueError"
                                /\ raised # InsufficientData
                                /\ backend_calls = <<>>
           /\ Len(historical_data) < 2 => pc = "raised" /\ backend_calls = <<>>
           /\ raised = InsufficientData => ~SomeMalformed /\ Len(historical_data) < 2
           /\ backend_calls # <<>> => ~SomeMalformed /\ Len(historical_data) >= 2

\* forecast on the one point ("not-a-date", 10): the parse fails, the
\* length is never tested
C27_Witness ==
    /\ op = "forecast"
    /\ pc = "raised"
    /\ Len(historical_data) = 1
    /\ historical_data[1].month = NotADate
    /\ NeitherFormatParses(NotADate)
    /\ raised = "ValueError"
    /\ backend_calls = <<>>
    /\ result = NoResult

\* no code occurs twice on a path from node down, none of them is in seen
RECURSIVE PathsDistinct(_, _)
PathsDistinct(node, seen) ==
    /\ node.code \notin seen
    /\ \A k \in 1..Len(node.children) :
          PathsDistinct(node.children[k], seen \cup {node.code})

\* the number of nodes on the longest path from node down
RECURSIVE Depth(_)
Depth(node) ==
    IF node.children = <<>> THEN 1
    ELSE 1 + Depth(node.children[CHOOSE k \in 1..Len(node.children) :
                       \A j \in 1..Len(node.children) :
                           Depth(node.children[j]) <= Depth(node.children[k])])

\* the calls under way are on pairwise distinct codes, each frame's
\* visited is the set of codes from the root down to it, and a tree that is
\* built repeats no code on a path and is at most as deep as there are codes
TreePathsDistinct ==
    /\ Len(tree_call.stack) <= Cardinality(Codes)
    /\ \A i \in 1..Len(tree_call.stack) :
          /\ tree_call.stack[i].visited = {tree_call.stack[j].code : j \in 1..i}
          /\ \A j \in 1..Len(tree_call.stack) :
                i # j => tree_call.stack[i].code # tree_call.stack[j].code
    /\ tree_call.pc = "built"
          => /\ PathsDistinct(tree_call.root[1], {})
             /\ Depth(tree_call.root[1]) <= Cardinality(Codes)

\* C28: build_node terminates on every set of BOM records, cyclic ones
\* included: a construction under way ends with a built tree; a code on
\* the current path from the root yields no node, so that no path of the
\* tree repeats a code and the tree is at most as deep as there are codes.
C28_BuildTerminates ==
    /\ []TreePathsDistinct
    /\ (tree_call.pc = "building") ~> (tree_call.pc = "built")

\* the records A -> B, A -> B, B -> A: the cycle is cut below B, and B is
\* built twice, in two sibling branches
C28_Witness ==
    /\ tree_call.pc = "built"
    /\ tree_call.boms
          = <<[parent_code |-> "A", child_code |-> "B", alt_part |-> ""],
              [parent_code |-> "A", child_code |-> "B", alt_part |-> ""],
              [parent_code |-> "B", child_code |-> "A", alt_part |-> ""]>>
    /\ tree_call.root
          = <<[code |-> "A", level |-> 0,
               children |-> <<[code |-> "B", level |-> 1, children |-> <<>>],
                              [code |-> "B", level |-> 1, children |-> <<>>]>>]>>

\* the entries of the pages, one page after the other
RECURSIVE ConcatEntries(_)
ConcatEntries(pages) ==
    IF pages = <<>> THEN <<>>
    ELSE ConcatEntries(SubSeq(pages, 1, Len(pages) - 1)) \o pages[Len(pages)].entries

\* C29: all_data is the entries of the pages fetched, in the order they
\* were fetched; the first request carries no cursor and every later one
\* the cursor of the response just before it; no page before the last one
\* fetched is a stopping page (empty, without cursor, or shorter than
\* limit), and a load that returned has a stopping page as its last.
C29_PaginatedLoad ==
    LET n == Len(page_call.responses)
    IN  /\ Len(page_call.requests) = n
        /\ page_call.all_data = ConcatEntries(page_call.responses)
        /\ \A k \in 1..n :
              /\ k = 1 => page_call.requests[k] = <<>>
              /\ k > 1 => /\ page_call.requests[k] = page_call.responses[k - 1].search_after
                          /\ page_call.requests[k] # <<>>
              /\ k < n => /\ ~page_call.responses[k].error
                          /\ ~StoppingPage(page_call.responses[k], page_call.limit)
        /\ page_call.pc = "returned"
              => n >= 1 /\ StoppingPage(page_call.responses[n], page_call.limit)
        /\ page_call.pc = "loading"
              => n = 0 \/ ~StoppingPage(page_call.responses[n], page_call.limit)

\* three pages with limit 2: two full pages with the cursors 1 and 2, then
\* a page of one entry; the third request carried the cursor 2
C29_Witness ==
    /\ page_call.pc = "returned"
    /\ page_call.limit = 2
    /\ page_call.requests = <<<<>>, <<1>>, <<2>>>>
    /\ Len(page_call.responses) = 3
    /\ page_call.responses[3].entries = <<"y">>
    /\ page_call.responses[3].search_after = <<1>>
    /\ page_call.all_data = <<"x", "y", "y", "x", "y">>

\* the records of the material code c, as positions of the list
RecordsOf(c) ==
    {i \in 1..Len(inventory_call.inventory_data) :
        inventory_call.inventory_data[i].material_code = c}

\* the material codes of the list that are not empty
MaterialCodes ==
    {inventory_call.inventory_data[i].material_code :
        i \in 1..Len(inventory_call.inventory_data)} \ {""}

\* sums and maximum over the records of every material code
StockAndAgeAreSumsAndMax ==
    /\ DOMAIN inventory_call.inventory_map = MaterialCodes
    /\ \A c \in MaterialCodes :
          LET entry == inventory_call.inventory_map[c]
              data == inventory_call.inventory_data
          IN  /\ entry.current_stock
                    = SumFcn([i \in RecordsOf(c) |-> data[i].base_qty], RecordsOf(c))
              /\ entry.available_stock
                    = SumFcn([i \in RecordsOf(c) |-> data[i].available_base_qty],
                             RecordsOf(c))
              /\ \E i \in RecordsOf(c) : entry.storage_days = data[i].storage_days
              /\ \A i \in RecordsOf(c) : entry.storage_days >= data[i].storage_days

\* the stock and the age of every entry
StockAndAge(m) ==
    [c \in DOMAIN m |-> [current_stock |-> m[c].current_stock,
                         available_stock |-> m[c].available_stock,
                         storage_days |-> m[c].storage_days]]

\* the records in another order give the same stock and age
OrderIndependent ==
    inventory_call.pc = "returned"
        => LET data == inventory_call.inventory_data
           IN  \A f \in Permutations(1..Len(data)) :
                  StockAndAge(Aggregate(inventory_call.variant,
                                        [k \in 1..Len(data) |-> data[f[k]]]))
                     = StockAndAge(inventory_call.inventory_map)

\* the aggregation of bom_calculator_api gives the sums and the maximum
ApiSumsAndMax ==
    (inventory_call.pc = "returned" /\ inventory_call.variant = "api")
        => StockAndAgeAreSumsAndMax

\* C30 (as claimed): in both aggregations the stock and the age of a
\* material do not depend on the order of the records: current_stock and
\* available_stock are the sums over the material's records and
\* storage_days is the maximum over them, and a record with an empty
\* material code contributes to no entry.
C30_InventoryAggregation ==
    inventory_call.pc = "returned" => OrderIndependent /\ StockAndAgeAreSumsAndMax

\* the aggregation of bom_calculator_tools on two records of M2 whose
\* batch is dated after the day of the run: storage_days is 0, not -3
C30_Witness ==
    /\ inventory_call.pc = "returned"
    /\ inventory_call.variant = "tools"
    /\ Len(inventory_call.inventory_data) = 2
    /\ \A i \in 1..2 : /\ inventory_call.inventory_data[i].material_code = "M2"
                        /\ inventory_call.inventory_data[i].storage_days = -3
    /\ inventory_call.inventory_map["M2"].current_stock = 14000
    /\ inventory_call.inventory_map["M2"].storage_days = 0

\* what the call returns when no other call runs: forecast on its frame
AloneResult(call) ==
    forecast_after_prepare([raised |-> "none", df |-> call.df], call.forecast_periods,
                           call.params, call.external, use_prophet).result

\* a call on the fallback path writes nothing that outlives it
FallbackWritesNothing ==
    \A c \in Callers : calls[c].result.branch \in {"holt_winters", "simple_exponential"}
                           => writes[c] = {}

\* C15 (as claimed): of two forecast calls under way on the shared
\* instance, neither has written a location the other has read (fields of
\* the instance, process-wide state), and a call that returned holds the
\* result it gives when run alone.
C15_NoSharedMutableState ==
    \A c, d \in Callers :
        c # d => /\ writes[c] \cap reads[d] = {}
                 /\ calls[c].pc = "returned" => calls[c].result = AloneResult(calls[c])

\* two calls on the external path, both returned with the results they give
\* alone: each has assigned os.environ and the other has read it
C15_Witness ==
    /\ use_prophet
    /\ \A c \in Callers :
          /\ calls[c].pc = "returned"
          /\ calls[c].result.branch = "prophet"
          /\ calls[c].result = AloneResult(calls[c])
          /\ "os.environ" \in writes[c]
          /\ "os.environ" \in reads[c]
    /\ CmdstanEnv \subseteq environ

====
